---------------------------- MODULE Spec2Model ----------------------------
(***************************************************************************)
(* Event extraction and time filtering of the disaster data agent          *)
(* (src/google_adk/5_disaster_data_agent/agent.py), its web search, and    *)
(* packet validation of the Kafka consumer                                 *)
(* (src/diaster_consumer_agent/1_disaster_kafka_consumer/agent.py).        *)
(*                                                                         *)
(* The functions of the agent are modelled as operators that compute what  *)
(* the Python code computes; a behaviour is one call of one function (fn)  *)
(* on inputs drawn in Init, or one run of generate_discrete_event_packets  *)
(* over one document, stage by stage.                                      *)
(*                                                                         *)
(* Text is modelled by its surface form.  A date string is a record        *)
(* [kind, a, b, c]: kind names the form of the text and a, b, c are the    *)
(* numbers written in it, in the order they are written.                   *)
(*   ymd_dash  "a-b-c", four-digit year first       2024-08-15             *)
(*   ymd_slash "a/b/c", four-digit year first       2024/08/15             *)
(*   mdy_dash  "a-b-c", four-digit year last        08-15-2024             *)
(*   mdy_slash "a/b/c", four-digit year last        08/15/2024             *)
(*   month     month name, day b, year c            Aug 15, 2024           *)
(*   relative  a "RELATIVE:..." marker                                     *)
(*   text      any other non-empty text                                    *)
(*   empty     the empty string                                            *)
(*   null      None (a missing key read with .get, or a JSON null)         *)
(*   number    a value that is not a string (a JSON number)                *)
(***************************************************************************)
EXTENDS Integers, Sequences, FiniteSets, TLC

VARIABLES
    fn,             \* the function being called
    pc,             \* position in the call
    clock,          \* datetime.now(): [y, m, d, tod], tod = 0 is midnight
    llm_response,   \* the oracle's reply to the call in progress
    time_bounds,    \* the time bounds dict (argument or result)
    urls,           \* candidate URL items (argument)
    filtered_urls,  \* result of filter_urls_by_date_relevance
    doc,            \* one validated extraction: paragraphs, tables, entities
    events,         \* event dicts (argument) / discrete_events
    filtered_events,\* result of filter_events_by_time_bounds
    casualties,     \* argument of calculate_severity
    num_locations,  \* argument of calculate_severity
    severity,       \* result of calculate_severity
    packets,        \* packets built by create_packet_from_llm_event
    strategy,       \* which clustering strategy produced the events
    outcome,        \* "pending", "returned" or "raised"
    search_input,   \* arguments and environment of search_web_for_disaster_data
    results,        \* the dict search_web_for_disaster_data returns
    searches,       \* number of ddgs.text calls made
    state,          \* ConsumerState of the Kafka consumer workflow
    page_text,      \* the casualty mentions of a page's text, in order
    found_casualties, \* disaster_entities['casualties'] of the extraction
    crawl_input,    \* arguments and environment of crawl_urls_with_ai
    crawl_results,  \* the dict crawl_urls_with_ai returns
    trace,          \* the calls the function in progress has made, in order
    collected,      \* the dict collect_and_process_disaster_data returns
    kafka,          \* arguments and environment of consume_kafka_messages
    messages,       \* the list consume_kafka_messages returns
    db,             \* whether the database accepts a store: "ok" or "error"
    running,        \* run_consumer's flag for graceful shutdown
    batch_count,    \* run_consumer's count of completed batches
    last_batch      \* how run_consumer's latest batch ended

agent_vars == <<clock, llm_response, time_bounds, urls, filtered_urls, doc,
                events, filtered_events, casualties, num_locations, severity,
                packets, strategy>>
search_vars == <<search_input, results, searches>>
consumer_vars == <<state>>
extract_vars == <<page_text, found_casualties>>
crawl_vars == <<crawl_input, crawl_results>>
collect_vars == <<trace, collected>>
kafka_vars == <<kafka, messages, db>>
runner_vars == <<running, batch_count, last_batch>>
rest_vars == <<extract_vars, crawl_vars, collect_vars, kafka_vars, runner_vars>>

vars == <<fn, pc, clock, llm_response, time_bounds, urls, filtered_urls, doc,
          events, filtered_events, casualties, num_locations, severity,
          packets, strategy, outcome, search_input, results, searches, state,
          page_text, found_casualties, crawl_input, crawl_results, trace, collected,
          kafka, messages, db, running, batch_count, last_batch>>

-----------------------------------------------------------------------------
(* Bounds of the model.                                                    *)

MaxUrls == 3
MaxEvents == 2
MaxCasualties == 2
MaxLocations == 4
MaxParagraphs == 2
MaxHits == 2
MaxMessages == 2

-----------------------------------------------------------------------------
(* Sequences.                                                              *)

Min(a, b) == IF a <= b THEN a ELSE b

\* s[:n]
Take(s, n) == SubSeq(s, 1, Min(n, Len(s)))

SeqsUpTo(S, n) == UNION {[1..k -> S] : k \in 0..n}

-----------------------------------------------------------------------------
(* Calendar: datetime.strptime, strftime, timedelta and comparison.        *)

IsLeap(y) == (y % 4 = 0 /\ y % 100 # 0) \/ y % 400 = 0

DaysInMonth(y, m) ==
    CASE m \in {1, 3, 5, 7, 8, 10, 12} -> 31
      [] m \in {4, 6, 9, 11} -> 30
      [] OTHER -> IF IsLeap(y) THEN 29 ELSE 28

RECURSIVE DaysBeforeMonth(_, _)
DaysBeforeMonth(y, m) ==
    IF m <= 1 THEN 0 ELSE DaysBeforeMonth(y, m - 1) + DaysInMonth(y, m - 1)

\* date.toordinal(): days since 0001-01-01, that day being 1
ToOrdinal(y, m, d) ==
    LET p == y - 1
    IN  p * 365 + (p \div 4) - (p \div 100) + (p \div 400)
          + DaysBeforeMonth(y, m) + d

ValidYMD(y, m, d) ==
    /\ y \in 1..9999
    /\ m \in 1..12
    /\ d \in 1..DaysInMonth(y, m)

DateStr(kind, a, b, c) == [kind |-> kind, a |-> a, b |-> b, c |-> c]
NoneDate == DateStr("null", 0, 0, 0)
EmptyDate == DateStr("empty", 0, 0, 0)
RelativeDate == DateStr("relative", 0, 0, 0)
TextDate == DateStr("text", 0, 0, 0)
NumberDate == DateStr("number", 2024, 0, 0)
Iso(y, m, d) == DateStr("ymd_dash", y, m, d)

\* Python truthiness of a value read from a dict: None and "" are falsy
\* (the numbers of the model are non-zero)
Truthy(s) == s.kind \notin {"null", "empty"}

IsString(s) == s.kind \notin {"null", "number"}

\* datetime.strptime(s, '%Y-%m-%d') succeeds; otherwise it raises ValueError
\* (TypeError for a value that is not a string)
ParsesYmd(s) == s.kind = "ymd_dash" /\ ValidYMD(s.a, s.b, s.c)

\* datetime.strptime(s, '%m/%d/%Y') succeeds
ParsesMdy(s) == s.kind = "mdy_slash" /\ ValidYMD(s.c, s.a, s.b)

\* A datetime is [day |-> ordinal, tod |-> time of day]; strptime of a date
\* gives midnight
Datetime(day, tod) == [day |-> day, tod |-> tod]
StrptimeYmd(s) == Datetime(ToOrdinal(s.a, s.b, s.c), 0)
StrptimeMdy(s) == Datetime(ToOrdinal(s.c, s.a, s.b), 0)
Now(c) == Datetime(ToOrdinal(c.y, c.m, c.d), c.tod)

\* datetime comparison t1 <= t2
DtLe(t1, t2) == t1.day < t2.day \/ (t1.day = t2.day /\ t1.tod <= t2.tod)

\* The calendar day before [y, m, d]
PrevDay(t) ==
    IF t.d > 1 THEN [t EXCEPT !.d = t.d - 1]
    ELSE IF t.m > 1
         THEN [t EXCEPT !.m = t.m - 1, !.d = DaysInMonth(t.y, t.m - 1)]
         ELSE [t EXCEPT !.y = t.y - 1, !.m = 12, !.d = 31]

\* t - timedelta(days=n)
RECURSIVE MinusDays(_, _)
MinusDays(t, n) == IF n = 0 THEN t ELSE MinusDays(PrevDay(t), n - 1)

\* t.strftime('%Y-%m-%d')
StrftimeYmd(t) == Iso(t.y, t.m, t.d)

-----------------------------------------------------------------------------
(* extract_time_bounds_from_query                                          *)

\* A time bounds dict.  present = FALSE is None (generate_discrete_event_
\* packets called without time bounds).  has_time_constraint is "True",
\* "False" or "None" (the key missing or null).
TimeBounds(s, e, desc, has) ==
    [present |-> TRUE, start_date |-> s, end_date |-> e,
     temporal_description |-> desc, has_time_constraint |-> has]
NoTimeBounds ==
    [present |-> FALSE, start_date |-> NoneDate, end_date |-> NoneDate,
     temporal_description |-> "", has_time_constraint |-> "None"]

\* The oracle's reply: status "ok" (a response came back), "error" or
\* "timeout" (generate_content raised); text FALSE when response.text is
\* None; fence "json", "bare" or "none" is the markdown fence around the
\* body; json is what json.loads makes of the body: "invalid" (it raises),
\* "object", "array", "number", "string" or "null"; tb is the object read as
\* time bounds; events_kind says what the object holds under 'events': a
\* "list" of event dicts (events), a list with an element that is no dict
\* ("bad_list"), "null", or no such key ("absent").
Reply(status, text, fence, json, obj) ==
    [status |-> status, text |-> text, fence |-> fence, json |-> json,
     tb |-> obj, events_kind |-> "absent", events |-> <<>>]
NoReply == Reply("none", FALSE, "none", "invalid", NoTimeBounds)

\* The except branch: the past 7 days, no time constraint
FallbackDays == 7
DefaultTimeBounds_Constrained(today) ==
    [present |-> TRUE,
     start_date |-> StrftimeYmd(MinusDays(today, FallbackDays)),
     end_date |-> StrftimeYmd(today),
     temporal_description |-> "past week (default)",
     has_time_constraint |-> "True"]
DefaultTimeBounds(today) ==
    TimeBounds(StrftimeYmd(MinusDays(today, FallbackDays)), StrftimeYmd(today),
               "past week (default)", "False")

\* The body of the try block raises: the call, response.text.strip() on
\* None, json.loads on text that is not JSON, or time_bounds.get on a JSON
\* value that is not an object
TimeBoundsReplyFails(r) ==
    \/ r.status # "ok"
    \/ ~r.text
    \/ r.json # "object"

extract_time_bounds_from_query(today, r) ==
    IF TimeBoundsReplyFails(r) THEN DefaultTimeBounds(today) ELSE r.tb

-----------------------------------------------------------------------------
(* filter_urls_by_date_relevance                                           *)

HasTimeConstraint_NotNone(tb) == tb.has_time_constraint # "None"
\* time_bounds.get('has_time_constraint') as a condition
HasTimeConstraint(tb) == tb.has_time_constraint = "True"

\* datetime.strptime(time_bounds['start_date'], '%Y-%m-%d') and the same for
\* end_date, outside any try: a missing key or a string that does not parse
\* raises
BoundsParse(tb) == ParsesYmd(tb.start_date) /\ ParsesYmd(tb.end_date)

\* A candidate: dates is found_dates, the matches of the three date patterns
\* in url + title + snippet, in the order re.findall collects them;
\* kw_text says that a recency keyword occurs in the title or the snippet,
\* kw_url that one occurs in the URL
UrlItem(url, dates, kw_text, kw_url) ==
    [url |-> url, dates |-> dates, kw_text |-> kw_text, kw_url |-> kw_url]

\* One found date: parsed with '%Y-%m-%d' when it holds a '-' and its first
\* '-' part has four characters, else with '%m/%d/%Y' when it holds a '/',
\* else not parsed; a strptime failure skips the date.  A month-name match
\* holds no '/', and parsed as '%Y-%m-%d' it fails.
UrlDateInBounds(s, tb) ==
    LET lo == StrptimeYmd(tb.start_date)
        hi == StrptimeYmd(tb.end_date)
    IN  \/ /\ s.kind = "ymd_dash"
           /\ ParsesYmd(s)
           /\ DtLe(lo, StrptimeYmd(s)) /\ DtLe(StrptimeYmd(s), hi)
        \/ /\ s.kind = "mdy_slash"
           /\ ParsesMdy(s)
           /\ DtLe(lo, StrptimeMdy(s)) /\ DtLe(StrptimeMdy(s), hi)

\* The body of the loop: with dates found, some date lies within the bounds;
\* without, a recency keyword in the title or the snippet
UrlIncluded(item, tb) ==
    IF item.dates # <<>>
    THEN \E i \in 1..Len(item.dates) : UrlDateInBounds(item.dates[i], tb)
    ELSE item.kw_text

RECURSIVE UrlLoop(_, _)
UrlLoop(items, tb) ==
    IF items = <<>> THEN <<>>
    ELSE (IF UrlIncluded(Head(items), tb) THEN <<Head(items)>> ELSE <<>>)
           \o UrlLoop(Tail(items), tb)

UrlFallback_None(filtered, items) == filtered
\* return filtered_urls if filtered_urls else urls[:2]
UrlFallback(filtered, items) == IF filtered # <<>> THEN filtered ELSE Take(items, 2)

filter_urls_raises(items, tb) == HasTimeConstraint(tb) /\ ~BoundsParse(tb)

filter_urls_by_date_relevance(items, tb) ==
    IF ~HasTimeConstraint(tb) THEN items
    ELSE UrlFallback(UrlLoop(items, tb), items)

-----------------------------------------------------------------------------
(* Events                                                                  *)

NoneStr == "<None>"
AbsentStr == "<absent>"

\* A number field of a dict: kind "int" (value n), "absent" (no such key),
\* "null" or "str" (a value that is not a number)
Num(kind, n) == [kind |-> kind, n |-> n]
IntNum(n) == Num("int", n)
AbsentNum == Num("absent", 0)

\* event['locations']: a list, null, or no such key
Locations(kind, items) == [kind |-> kind, items |-> items]
LocList(items) == Locations("list", items)

\* event['casualties']: a dict, null, or no such key
Casualties(kind, deaths, injured, displaced) ==
    [kind |-> kind, deaths |-> deaths, injured |-> injured,
     displaced |-> displaced]
CasDict(deaths, injured, displaced) ==
    Casualties("dict", deaths, injured, displaced)
EmptyCasualties == CasDict(AbsentNum, AbsentNum, AbsentNum)

Event(id, start, end, ploc, locs, cas, sev, source) ==
    [event_id |-> id, start_date |-> start, end_date |-> end,
     primary_location |-> ploc, locations |-> locs, casualties |-> cas,
     severity |-> sev, source |-> source]

-----------------------------------------------------------------------------
(* filter_events_by_time_bounds                                            *)

EventWithinBounds_Exclusive(e, tb, now) ==
    /\ ParsesYmd(e.start_date)
    /\ DtLe(StrptimeYmd(tb.start_date), StrptimeYmd(e.start_date))
    /\ ~DtLe(StrptimeYmd(tb.end_date), StrptimeYmd(e.start_date))
\* The try block of the loop: a RELATIVE: marker stands for
\* datetime.now(), any other start date is parsed with '%Y-%m-%d'; a value
\* that is not a string (startswith) or does not parse raises, and the
\* except branch excludes the event
EventWithinBounds(e, tb, now) ==
    LET lo == StrptimeYmd(tb.start_date)
        hi == StrptimeYmd(tb.end_date)
        s == e.start_date
    IN  /\ Truthy(s)
        /\ IsString(s)
        /\ IF s.kind = "relative"
           THEN DtLe(lo, now) /\ DtLe(now, hi)
           ELSE /\ ParsesYmd(s)
                /\ DtLe(lo, StrptimeYmd(s)) /\ DtLe(StrptimeYmd(s), hi)

RECURSIVE EventLoop(_, _, _)
EventLoop(evs, tb, now) ==
    IF evs = <<>> THEN <<>>
    ELSE (IF EventWithinBounds(Head(evs), tb, now) THEN <<Head(evs)>> ELSE <<>>)
           \o EventLoop(Tail(evs), tb, now)

filter_events_raises(evs, tb) == HasTimeConstraint(tb) /\ ~BoundsParse(tb)

filter_events_by_time_bounds(evs, tb, now) ==
    IF ~HasTimeConstraint(tb) THEN evs ELSE EventLoop(evs, tb, now)

-----------------------------------------------------------------------------
(* calculate_severity                                                      *)

\* One element of the casualties list: a string; digits says c.isdigit(),
\* n is int(c)
CasualtyStr(digits, n) == [digits |-> digits, n |-> n]

\* sum(int(c) for c in casualties if c.isdigit())
RECURSIVE CasualtyTotal(_)
CasualtyTotal(cs) ==
    IF cs = <<>> THEN 0
    ELSE (IF Head(cs).digits THEN Head(cs).n ELSE 0) + CasualtyTotal(Tail(cs))

calculate_severity(cs, n) ==
    IF cs = <<>> THEN "low"
    ELSE LET total == CasualtyTotal(cs)
         IN  IF total > 100 \/ n > 3 THEN "high"
             ELSE IF total > 10 \/ n > 1 THEN "medium"
             ELSE "low"

-----------------------------------------------------------------------------
(* create_packet_from_llm_event                                            *)

\* dict.get(key, 0) of a number field
GetOrZero(v) == IF v.kind = "absent" THEN IntNum(0) ELSE v

\* event.get('casualties', {})
GetCasualties(e) ==
    IF e.casualties.kind = "absent" THEN EmptyCasualties ELSE e.casualties

CasualtyValues(c) ==
    SelectSeq(<<c.deaths, c.injured, c.displaced>>,
              LAMBDA v : v.kind # "absent")

RECURSIVE SumNums(_)
SumNums(vs) == IF vs = <<>> THEN 0 ELSE Head(vs).n + SumNums(Tail(vs))

\* sum(casualties.values()) if casualties else 0
TotalAffected(c) == SumNums(CasualtyValues(c))

\* event.get("locations", [])
GetLocations(e) == IF e.locations.kind = "absent" THEN <<>> ELSE e.locations.items

\* The start date of the packet: a RELATIVE: marker becomes the publish date
\* of the article when there is one, else today
PacketStartDate(e, publish_date, now) ==
    IF Truthy(e.start_date) /\ e.start_date.kind = "relative"
    THEN IF Truthy(publish_date) THEN publish_date
         ELSE StrftimeYmd([y |-> now.y, m |-> now.m, d |-> now.d])
    ELSE e.start_date

PacketConfidence_DateOnly(start_date, e) ==
    IF Truthy(start_date) THEN "high" ELSE "medium"
\* "high" if start_date and event.get("primary_location") else "medium"
PacketConfidence(start_date, e) ==
    IF Truthy(start_date) /\ e.primary_location \notin {NoneStr, ""}
    THEN "high" ELSE "medium"

\* "high" if event.get("severity") == "high" else "normal"
PacketPriority(e) == IF e.severity = "high" THEN "high" ELSE "normal"

\* The call raises: start_date.startswith on a value that is not a string,
\* casualties.get on null, sum() over a value that is not a number,
\* len() of null
create_packet_raises(e) ==
    \/ Truthy(e.start_date) /\ ~IsString(e.start_date)
    \/ e.casualties.kind = "null"
    \/ \E i \in 1..Len(CasualtyValues(GetCasualties(e))) :
          CasualtyValues(GetCasualties(e))[i].kind # "int"
    \/ e.locations.kind = "null"

create_packet_from_llm_event(e, publish_date, now) ==
    LET start_date == PacketStartDate(e, publish_date, now)
        c == GetCasualties(e)
    IN  [event_id |-> e.event_id,
         severity |-> IF e.severity = AbsentStr THEN "unknown" ELSE e.severity,
         start_date |-> start_date,
         end_date |-> e.end_date,
         is_ongoing |-> e.end_date.kind = "null" /\ start_date.kind # "null",
         primary_location |-> e.primary_location,
         affected_locations |-> GetLocations(e),
         num_locations |-> Len(GetLocations(e)),
         deaths |-> GetOrZero(c.deaths),
         injured |-> GetOrZero(c.injured),
         displaced |-> GetOrZero(c.displaced),
         total_affected |-> TotalAffected(c),
         confidence |-> PacketConfidence(start_date, e),
         extraction_method |-> "llm_clustering",
         priority |-> PacketPriority(e),
         requires_geo_coding |-> GetLocations(e) # <<>>,
         requires_time_normalization |-> start_date.kind = "relative"]

-----------------------------------------------------------------------------
(* cluster_related_content_with_llm                                        *)

\* The try block raises, and the function returns []: the call fails,
\* response.text is None, the body is not JSON, the JSON value is no object,
\* 'events' is null (len) or holds an element that is no dict (event.get)
ClusterReplyFails(r) ==
    \/ r.status # "ok"
    \/ ~r.text
    \/ r.json # "object"
    \/ r.events_kind \in {"null", "bad_list"}

cluster_related_content_with_llm(r) ==
    IF ClusterReplyFails(r) \/ r.events_kind = "absent" THEN <<>> ELSE r.events

-----------------------------------------------------------------------------
(* extract_discrete_events_fallback                                        *)

\* A paragraph: len is len(paragraph); dates and locations are the strings
\* that occur in the lower-cased text; killed, injured and displaced are the
\* numbers the three casualty patterns match, each in order of appearance
Paragraph(len, dates, locations, killed, injured, displaced) ==
    [len |-> len, dates |-> dates, locations |-> locations, killed |-> killed,
     injured |-> injured, displaced |-> displaced]

\* A table as extract_structured_data stores it
Table(headers, rows) == [headers |-> headers, rows |-> rows]

\* One validated extraction
Doc(status, paragraphs, tables, dates, locations, publish_date) ==
    [status |-> status, paragraphs |-> paragraphs, tables |-> tables,
     dates |-> dates, locations |-> locations, publish_date |-> publish_date]

MinParagraphLen == 50
MaxFallbackParagraphs == 30

FallbackHasContent_None(p) == TRUE
\* len(paragraph) > 50
FallbackHasContent(p) == p.len > MinParagraphLen

\* "high" if casualties and int(casualties[0]) > 50 else "medium"
FallbackSeverity(cs) == IF cs # <<>> /\ cs[1] > 50 THEN "high" ELSE "medium"

\* The event of paragraph p, whose index in the list is idx (from 0)
FallbackEvent(p, idx, all_dates, all_locations) ==
    LET para_dates == SelectSeq(all_dates, LAMBDA d : d \in p.dates)
        para_locations == SelectSeq(all_locations, LAMBDA l : l \in p.locations)
        cs == p.killed \o p.injured \o p.displaced
    IN  [emit |-> (para_dates # <<>> \/ para_locations # <<>>)
                    /\ FallbackHasContent(p),
         event |->
           Event("para_" \o ToString(idx),
                 IF para_dates # <<>> THEN para_dates[1] ELSE NoneDate,
                 IF Len(para_dates) > 1 THEN para_dates[Len(para_dates)]
                 ELSE NoneDate,
                 IF para_locations # <<>> THEN para_locations[1] ELSE NoneStr,
                 LocList(para_locations),
                 CasDict(IntNum(IF cs # <<>> THEN cs[1] ELSE 0), IntNum(0),
                         IntNum(0)),
                 FallbackSeverity(cs),
                 "fallback_paragraph")]

RECURSIVE FallbackLoop(_, _, _, _)
FallbackLoop(paragraphs, idx, all_dates, all_locations) ==
    IF idx >= Len(paragraphs) THEN <<>>
    ELSE LET r == FallbackEvent(paragraphs[idx + 1], idx, all_dates,
                                all_locations)
         IN  (IF r.emit THEN <<r.event>> ELSE <<>>)
               \o FallbackLoop(paragraphs, idx + 1, all_dates, all_locations)

\* The tables argument is never read
extract_discrete_events_fallback(paragraphs, all_dates, all_locations, tables) ==
    FallbackLoop(Take(paragraphs, MaxFallbackParagraphs), 0, all_dates,
                 all_locations)

-----------------------------------------------------------------------------
(* generate_discrete_event_packets: the packets of one document.           *)

NeedsFallback_Always(discrete_events) == TRUE
\* if not discrete_events
NeedsFallback(discrete_events) == discrete_events = <<>>

RECURSIVE PacketLoop(_, _, _)
PacketLoop(evs, publish_date, now) ==
    IF evs = <<>> THEN <<>>
    ELSE <<create_packet_from_llm_event(Head(evs), publish_date, now)>>
           \o PacketLoop(Tail(evs), publish_date, now)

PacketLoopRaises(evs) == \E i \in 1..Len(evs) : create_packet_raises(evs[i])

-----------------------------------------------------------------------------
(* search_web_for_disaster_data                                            *)

\* The keys of SEED_QUERIES, in the order of the dict
DisasterTypes ==
    <<"floods", "droughts", "cyclones", "earthquakes", "landslides">>

\* Each key holds four queries
QueriesPerType == 4

\* SEED_QUERIES[t]: a query is named by its key and its place in the list
SEED_QUERIES(t) == [i \in 1..QueriesPerType |-> t \o "_" \o ToString(i)]

IsSeedKey(t) == \E i \in 1..Len(DisasterTypes) : DisasterTypes[i] = t

\* for disaster_queries in SEED_QUERIES.values(): queries.extend(...)
RECURSIVE AllSeedQueries(_)
AllSeedQueries(i) ==
    IF i > Len(DisasterTypes) THEN <<>>
    ELSE SEED_QUERIES(DisasterTypes[i]) \o AllSeedQueries(i + 1)

\* One search result: excluded says that its domain holds an excluded
\* domain, preferred that it holds a preferred one, keywords is the number of
\* relevance keywords that occur in its title or body
Hit(excluded, preferred, keywords) ==
    [excluded |-> excluded, preferred |-> preferred, keywords |-> keywords]

DomainBonus == 3
MinRelevance == 2

\* relevance_score = domain_bonus + one for each keyword found
RelevanceScore(h) == (IF h.preferred THEN DomainBonus ELSE 0) + h.keywords

\* An entry of discovered_urls
Discovered(query, score) == [query |-> query, relevance_score |-> score]

\* The loop over the results of one query: an excluded domain is skipped
\* before the length test, a result is appended when it scores enough, and
\* the loop breaks once discovered_urls holds max_results entries
RECURSIVE SearchHits(_, _, _, _)
SearchHits(hits, query, discovered, max_results) ==
    IF hits = <<>> THEN discovered
    ELSE LET h == Head(hits)
             d == IF ~h.excluded /\ RelevanceScore(h) >= MinRelevance
                  THEN Append(discovered, Discovered(query, RelevanceScore(h)))
                  ELSE discovered
         IN  IF ~h.excluded /\ Len(d) >= max_results THEN d
             ELSE SearchHits(Tail(hits), query, d, max_results)

\* The loop over the queries: discovered_urls after the first n queries; a
\* query whose search raises is skipped.  The list built by the earlier
\* queries is evaluated (Len) before the n-th query is searched.
RECURSIVE SearchQueries(_, _, _, _)
SearchQueries(queries, n, reply, max_results) ==
    IF n = 0 THEN <<>>
    ELSE LET discovered == SearchQueries(queries, n - 1, reply, max_results)
         IN  IF Len(discovered) >= 0 /\ reply.status = "ok"
             THEN SearchHits(reply.hits, queries[n], discovered, max_results)
             ELSE discovered

\* discovered_urls.sort(key=relevance_score, reverse=True).  The sort is
\* stable: the place of entry i is one more than the number of entries that
\* score higher, or score the same and stand before it
SortRank(s, i) ==
    1 + Cardinality({j \in 1..Len(s) :
                       \/ s[j].relevance_score > s[i].relevance_score
                       \/ /\ s[j].relevance_score = s[i].relevance_score
                          /\ j < i})

SortByRelevance(s) ==
    [k \in 1..Len(s) |-> s[CHOOSE i \in 1..Len(s) : SortRank(s, i) = k]]

\* The three mock URLs
MockUrls ==
    <<Discovered("mock_latest_news", 9), Discovered("mock_disaster_updates", 8),
      Discovered("mock_affected_areas", 7)>>

\* The dict the function returns; error is the head of error_message
SearchResult(status, error, disaster_type, discovered, note) ==
    [status |-> status, error |-> error, disaster_type |-> disaster_type,
     discovered_urls |-> discovered, total_count |-> Len(discovered),
     note |-> note]

NoSearchResult == SearchResult("none", "", AbsentStr, <<>>, "")

\* The arguments, and the environment: whether ddgs can be imported, whether
\* DDGS() can be built, and what ddgs.text answers to every query
SearchInput(disaster_type, max_results, use_mock, installed, init, reply) ==
    [disaster_type |-> disaster_type, max_results |-> max_results,
     use_mock |-> use_mock, ddgs_installed |-> installed, ddgs_init |-> init,
     reply |-> reply]

SearchReply(status, hits) == [status |-> status, hits |-> hits]

NoSearchInput ==
    SearchInput("", 0, FALSE, FALSE, FALSE, SearchReply("none", <<>>))

\* The queries selected for a disaster type
SelectQueries(disaster_type) ==
    IF disaster_type = "all" THEN AllSeedQueries(1)
    ELSE SEED_QUERIES(disaster_type)

KnownDisasterType_Any(disaster_type) == TRUE
\* disaster_type == "all" or disaster_type in SEED_QUERIES
KnownDisasterType(disaster_type) ==
    disaster_type = "all" \/ IsSeedKey(disaster_type)

\* The search loop is reached
SearchReachesLoop(inp) ==
    /\ ~inp.use_mock
    /\ inp.ddgs_installed
    /\ KnownDisasterType(inp.disaster_type)
    /\ inp.ddgs_init

\* Number of calls of ddgs.text
SearchCalls(inp) ==
    IF SearchReachesLoop(inp) THEN Len(SelectQueries(inp.disaster_type)) ELSE 0

search_web_for_disaster_data(inp) ==
    IF inp.use_mock
    THEN SearchResult("success", "", inp.disaster_type,
                      Take(MockUrls, inp.max_results), "Using mock data")
    ELSE IF ~inp.ddgs_installed
    THEN SearchResult("error", "ddgs not installed", AbsentStr, <<>>, "")
    ELSE IF ~KnownDisasterType(inp.disaster_type)
    THEN SearchResult("error", "Unknown disaster type", AbsentStr, <<>>, "")
    ELSE IF ~inp.ddgs_init
    THEN SearchResult("error", "Failed to initialize DDGS", AbsentStr, <<>>, "")
    ELSE SearchResult("success", "", inp.disaster_type,
                      SortByRelevance(
                        SearchQueries(SelectQueries(inp.disaster_type),
                                      Len(SelectQueries(inp.disaster_type)),
                                      inp.reply, inp.max_results)),
                      "")

-----------------------------------------------------------------------------
(* node_validate_packets of the Kafka consumer                             *)

\* A consumed message.  kind is the type of the deserialized value;
\* has_packet_id, has_packet_type and has_metadata are the results of
\* 'field in packet' (a key of a dict, an element of a list, a substring of
\* a string); metadata is the type of packet['metadata'] and disaster_type
\* the value of metadata.get('disaster_type'); sections is "dict" when each
\* of temporal, spatial, impact, metadata.source and
\* processing_instructions is a dict or absent, and the type of the one
\* that is not otherwise
Message(kind, has_id, has_type, has_metadata, metadata, disaster_type) ==
    [kind |-> kind, has_packet_id |-> has_id, has_packet_type |-> has_type,
     has_metadata |-> has_metadata, metadata |-> metadata,
     disaster_type |-> disaster_type, sections |-> "dict"]

HasRequiredFields(m) == m.has_packet_id /\ m.has_packet_type /\ m.has_metadata

\* The body of the loop for one packet.  'field in packet' raises TypeError
\* for None and for a number; packet.get raises AttributeError for a list or
\* a string, and so does metadata.get for a metadata that is no dict; every
\* exception is caught and files the packet as invalid
ValidatePacket_FieldsOnly(m) ==
    IF m.kind \in {"null", "number"} THEN "Validation error"
    ELSE IF ~HasRequiredFields(m) THEN "Missing required fields"
    ELSE "validated"
ValidatePacket(m) ==
    IF m.kind \in {"null", "number"} THEN "Validation error"
    ELSE IF ~HasRequiredFields(m) THEN "Missing required fields"
    ELSE IF m.kind # "dict" THEN "Validation error"
    ELSE IF m.metadata # "dict" THEN "Validation error"
    ELSE IF m.disaster_type \in {AbsentStr, NoneStr, ""}
    THEN "Missing disaster_type in metadata"
    ELSE "validated"

Invalid(packet, reason) == [packet |-> packet, reason |-> reason]

RECURSIVE ValidatedLoop(_)
ValidatedLoop(msgs) ==
    IF msgs = <<>> THEN <<>>
    ELSE (IF ValidatePacket(Head(msgs)) = "validated" THEN <<Head(msgs)>>
          ELSE <<>>) \o ValidatedLoop(Tail(msgs))

RECURSIVE InvalidLoop(_)
InvalidLoop(msgs) ==
    IF msgs = <<>> THEN <<>>
    ELSE (IF ValidatePacket(Head(msgs)) # "validated"
          THEN <<Invalid(Head(msgs), ValidatePacket(Head(msgs)))>>
          ELSE <<>>) \o InvalidLoop(Tail(msgs))

DefaultBatchSize == 10

\* state['statistics']: {} until node_update_statistics computes it
Statistics(computed, consumed, stored, failed) ==
    [computed |-> computed, messages_consumed |-> consumed,
     messages_stored |-> stored, messages_failed |-> failed]

\* ConsumerState with the given input and validation fields and the
\* values run_disaster_consumer's initial_state has in the others
ConsumerState(kafka_messages, validated, invalid, status) ==
    [kafka_messages |-> kafka_messages, batch_size |-> DefaultBatchSize,
     validated_packets |-> validated, invalid_packets |-> invalid,
     transformed_records |-> <<>>, stored_count |-> 0, failed_count |-> 0,
     statistics |-> Statistics(FALSE, 0, 0, 0), errors |-> <<>>,
     status |-> status]

NoConsumerState == ConsumerState(<<>>, <<>>, <<>>, "none")

node_validate_packets(st) ==
    [st EXCEPT !.validated_packets = ValidatedLoop(st.kafka_messages),
               !.invalid_packets = InvalidLoop(st.kafka_messages),
               !.status = "packets_validated"]

-----------------------------------------------------------------------------
(* Casualty extraction of extract_structured_data                          *)

\* The four casualty_patterns: 1 killed/dead/deaths/died/fatalities,
\* 2 death toll, 3 injured/wounded/hurt, 4 missing/displaced/evacuated/
\* affected
CasualtyPatterns == 4
MaxFoundCasualties == 10

\* One place of full_text that a casualty pattern matches, and the number
\* the pattern captures there; full_text is the sequence of these places in
\* their order of appearance
Mention(pattern, number) == [pattern |-> pattern, number |-> number]

\* re.findall(pattern, full_text, re.IGNORECASE)
FindAll(pattern, full_text) ==
    LET m == SelectSeq(full_text, LAMBDA x : x.pattern = pattern)
    IN  [i \in 1..Len(m) |-> m[i].number]

\* for pattern in casualty_patterns: found_casualties.extend(matches),
\* over the first n patterns
RECURSIVE ExtendLoop(_, _)
ExtendLoop(full_text, n) ==
    IF n = 0 THEN <<>>
    ELSE ExtendLoop(full_text, n - 1) \o FindAll(n, full_text)

\* results['disaster_entities']['casualties']
extract_casualties(full_text) ==
    Take(ExtendLoop(full_text, CasualtyPatterns), MaxFoundCasualties)

-----------------------------------------------------------------------------
(* crawl_urls_with_ai                                                      *)

\* One element of crawled_data
CrawledItem(url, status, error_message, method) ==
    [url |-> url, status |-> status, error_message |-> error_message,
     method |-> method]

CrawlResult(status, note, crawled_data, success_count, error_count) ==
    [status |-> status, note |-> note, crawled_data |-> crawled_data,
     success_count |-> success_count, error_count |-> error_count]

NoCrawlResult == CrawlResult("none", AbsentStr, <<>>, 0, 0)

\* The arguments and the environment of one call: whether crawl4ai can be
\* imported, after how many URLs the crawler fails as a whole (NeverFails
\* when it does not), how the attempt on each URL ends, whether requests can
\* be imported, and how the plain HTTP request for each URL ends
NeverFails == 0 - 1
CrawlInput(url_list, fallback, installed, fails_after, attempts, req, http) ==
    [urls |-> url_list, use_simple_fallback |-> fallback,
     installed |-> installed, fails_after |-> fails_after,
     attempts |-> attempts, requests_installed |-> req, http |-> http]

NoCrawlInput == CrawlInput(<<>>, FALSE, FALSE, NeverFails, <<>>, FALSE, <<>>)

\* The body of crawl_async's loop for one URL: one element appended and one
\* counter incremented
CrawlOne(res, url, attempt) ==
    IF attempt = "success"
    THEN [res EXCEPT
            !.crawled_data =
                Append(@, CrawledItem(url, "success", AbsentStr, "crawl4ai")),
            !.success_count = @ + 1]
    ELSE [res EXCEPT
            !.crawled_data =
                Append(@, CrawledItem(url, "error",
                    CASE attempt = "failed" -> "Crawl failed"
                      [] attempt = "timeout" -> "Crawl timeout (45s exceeded)"
                      [] OTHER -> "Crawl4AI error",
                    "crawl4ai")),
            !.error_count = @ + 1]

\* crawl_async over the first n URLs
RECURSIVE crawl_async(_, _, _, _)
crawl_async(res, url_list, attempts, n) ==
    IF n = 0 THEN res
    ELSE CrawlOne(crawl_async(res, url_list, attempts, n - 1), url_list[n],
                  attempts[n])

\* The fallback's body for element i of crawled_data: a failed element is
\* requested again over plain HTTP and updated in place
RetryOne_KeepErrorCount(res, i, http) ==
    IF res.crawled_data[i].status # "error" THEN res
    ELSE IF http = "ok"
    THEN [res EXCEPT
            !.crawled_data[i] =
                CrawledItem(@.url, "success", AbsentStr, "requests_fallback"),
            !.success_count = @ + 1]
    ELSE [res EXCEPT
            !.crawled_data[i] =
                CrawledItem(@.url, "error", "Fallback also failed",
                            "requests_fallback_failed")]
RetryOne(res, i, http) ==
    IF res.crawled_data[i].status # "error" THEN res
    ELSE IF http = "ok"
    THEN [res EXCEPT
            !.crawled_data[i] =
                CrawledItem(@.url, "success", AbsentStr, "requests_fallback"),
            !.success_count = @ + 1,
            !.error_count = @ - 1]
    ELSE [res EXCEPT
            !.crawled_data[i] =
                CrawledItem(@.url, "error", "Fallback also failed",
                            "requests_fallback_failed")]

\* for item in results['crawled_data'], over the first n elements.  The
\* elements are the attempts on a prefix of urls, so element i is URL i
RECURSIVE RetryLoop(_, _, _)
RetryLoop(res, http, n) ==
    IF n = 0 THEN res
    ELSE RetryOne(RetryLoop(res, http, n - 1), n, http[n])

\* Whether the Crawl4AI part ends in one of its two outer except clauses
CrawlerFails(inp) == ~inp.installed \/ inp.fails_after # NeverFails

\* results after the Crawl4AI part
AfterCrawl4AI(inp) ==
    LET fresh == CrawlResult("success", AbsentStr, <<>>, 0, 0)
    IN  IF ~inp.installed
        THEN [fresh EXCEPT
                !.status = "partial",
                !.note = "crawl4ai not available, using fallback method"]
        ELSE IF inp.fails_after # NeverFails
        THEN [crawl_async(fresh, inp.urls, inp.attempts,
                          Min(inp.fails_after, Len(inp.urls))) EXCEPT
                !.status = "partial",
                !.note = "Crawl4AI failed, using fallback method"]
        ELSE crawl_async(fresh, inp.urls, inp.attempts, Len(inp.urls))

\* if use_simple_fallback and results['error_count'] > 0
RunsFallback(inp, res) ==
    (inp.use_simple_fallback \/ CrawlerFails(inp)) /\ res.error_count > 0

crawl_urls_with_ai(inp) ==
    LET res == AfterCrawl4AI(inp)
    IN  IF ~RunsFallback(inp, res) THEN res
        ELSE IF ~inp.requests_installed
        THEN [res EXCEPT
                !.note = (IF @ = AbsentStr THEN "" ELSE @)
                         \o " | requests library not available for fallback"]
        ELSE RetryLoop(res, inp.http, Len(res.crawled_data))

-----------------------------------------------------------------------------
(* consume_kafka_messages                                                  *)

\* The arguments and the environment of one call: whether kafka can be
\* imported, whether the consumer connects, and the messages the topic
\* yields before the consumer times out
KafkaInput(batch_size, use_mock, installed, connects, topic) ==
    [batch_size |-> batch_size, use_mock |-> use_mock,
     installed |-> installed, connects |-> connects, topic |-> topic]

NoKafka == KafkaInput(0, FALSE, FALSE, FALSE, <<>>)

\* The three packets of the mock data
MockMessages ==
    <<Message("dict", TRUE, TRUE, TRUE, "dict", "floods"),
      Message("dict", TRUE, TRUE, TRUE, "dict", "cyclones"),
      Message("dict", TRUE, TRUE, TRUE, "dict", "earthquakes")>>

\* for message in consumer: the loop appends a message and breaks once
\* len(messages) >= batch_size, or ends when the topic yields no more
ConsumeLoop(topic, batch_size) ==
    IF topic = <<>> THEN <<>>
    ELSE Take(topic, IF batch_size >= 1 THEN batch_size ELSE 1)

\* An ImportError and any other exception both lead to the recursive call
\* with use_mock=True
consume_kafka_messages(k) ==
    IF k.use_mock THEN MockMessages
    ELSE IF ~k.installed THEN MockMessages
    ELSE IF ~k.connects THEN MockMessages
    ELSE ConsumeLoop(k.topic, k.batch_size)

-----------------------------------------------------------------------------
(* The workflow of run_disaster_consumer                                   *)

\* initial_state
initial_state(batch_size) ==
    [ConsumerState(<<>>, <<>>, <<>>, "initialized") EXCEPT
        !.batch_size = batch_size]

\* The node reads batch_size from the state and never asks for mock data
node_consume_kafka(st, k) ==
    [st EXCEPT
        !.kafka_messages =
            consume_kafka_messages([k EXCEPT !.batch_size = st.batch_size,
                                             !.use_mock = FALSE]),
        !.status = "kafka_consumed"]

\* A packet one of whose sections is no dict raises AttributeError at the
\* section's .get; the exception is caught, logged in errors, and the
\* packet has no record
Transforms(packet) == packet.sections = "dict"

Record(packet) ==
    [disaster_type |-> packet.disaster_type, raw_packet |-> packet]

RECURSIVE TransformLoop(_)
TransformLoop(pkts) ==
    IF pkts = <<>> THEN <<>>
    ELSE (IF Transforms(Head(pkts)) THEN <<Record(Head(pkts))>> ELSE <<>>)
         \o TransformLoop(Tail(pkts))

RECURSIVE TransformErrors(_)
TransformErrors(pkts) ==
    IF pkts = <<>> THEN <<>>
    ELSE (IF Transforms(Head(pkts)) THEN <<>> ELSE <<"Transform error">>)
         \o TransformErrors(Tail(pkts))

node_transform_data(st) ==
    [st EXCEPT !.transformed_records = TransformLoop(st.validated_packets),
               !.errors = @ \o TransformErrors(st.validated_packets),
               !.status = "data_transformed"]

\* store_disaster_events returns 0 for no records without touching the
\* database; otherwise it raises when the database does ("error") and
\* returns len(values) when it commits
StoreRaises(records, database) == records # <<>> /\ database = "error"

FailedCount_OfTransformed(st, stored_count) ==
    Len(st.transformed_records) - stored_count
FailedCount(st, stored_count) == Len(st.validated_packets) - stored_count

node_store_in_postgres(st, database) ==
    IF StoreRaises(st.transformed_records, database)
    THEN [st EXCEPT !.errors = Append(@, "Storage error"),
                    !.stored_count = 0,
                    !.failed_count = Len(st.validated_packets),
                    !.status = "storage_failed"]
    ELSE [st EXCEPT !.stored_count = Len(st.transformed_records),
                    !.failed_count =
                        FailedCount(st, Len(st.transformed_records)),
                    !.status = "data_stored"]

\* store_statistics catches its own exceptions
node_update_statistics(st) ==
    [st EXCEPT
        !.statistics = Statistics(TRUE, Len(st.kafka_messages),
                                  st.stored_count, st.failed_count),
        !.status = "completed"]

\* create_consumer_workflow: the entry point and the edges
EntryPoint == "consume_kafka"
END == "return"

NextNode_EndOnStorageFailure(node, st) ==
    CASE node = "consume_kafka" -> "validate_packets"
      [] node = "validate_packets" -> "transform_data"
      [] node = "transform_data" -> "store_in_postgres"
      [] node = "store_in_postgres" ->
            IF st.status = "storage_failed" THEN END ELSE "update_statistics"
      [] node = "update_statistics" -> END
NextNode(node, st) ==
    CASE node = "consume_kafka" -> "validate_packets"
      [] node = "validate_packets" -> "transform_data"
      [] node = "transform_data" -> "store_in_postgres"
      [] node = "store_in_postgres" -> "update_statistics"
      [] node = "update_statistics" -> END

\* One entry of trace: the function called and the time bounds handed to it
Call(name, arg) == [call |-> name, arg |-> arg]

-----------------------------------------------------------------------------
(* The result of collect_and_process_disaster_data                         *)

Collected(status, error, workflow_steps, final_packets, bounds) ==
    [status |-> status, error |-> error, workflow_steps |-> workflow_steps,
     final_packets |-> final_packets, time_bounds |-> bounds]

NoCollected == Collected("none", AbsentStr, <<>>, <<>>, NoTimeBounds)

\* max_urls, at its default
DefaultMaxUrls == 1

\* results['workflow_steps'][key] = {...}
RecordStep(res, key) == [res EXCEPT !.workflow_steps = Append(@, key)]

\* results['status'] = 'failed'; results['error'] = error
Failed(res, error) == [res EXCEPT !.status = "failed", !.error = error]

\* if search_results.get('status') != 'success'
\*    or not search_results.get('discovered_urls')
SearchFailed_StatusOnly(search_results) == search_results.status # "success"
SearchFailed(search_results) ==
    \/ search_results.status # "success"
    \/ search_results.discovered_urls = <<>>

\* if crawl_results.get('success_count', 0) == 0
AllCrawlsFailed(crawled) == crawled.success_count = 0

\* urls_to_crawl = [item['url'] for item in filtered_urls[:max_urls]]
UrlsToCrawl(filtered, max_urls) ==
    [i \in 1..Len(Take(filtered, max_urls)) |-> filtered[i].url]

\* generate_discrete_event_packets for one validated extraction: the events
\* clustered, the events kept by the time filter, the packets, whether the
\* time filter was called and whether an exception escaped
Generated(discrete, filtered, pkts, used, filter_called, raised) ==
    [events |-> discrete, filtered_events |-> filtered, packets |-> pkts,
     strategy |-> used, filter_called |-> filter_called, raised |-> raised]

generate_discrete_event_packets(extraction, reply, tb, c) ==
    IF extraction.status # "extracted"
    THEN Generated(<<>>, <<>>, <<>>, "none", FALSE, FALSE)
    ELSE
      LET clustered == cluster_related_content_with_llm(reply)
          fallback == NeedsFallback(clustered)
          discrete ==
            IF fallback
            THEN extract_discrete_events_fallback(
                     extraction.paragraphs, extraction.dates,
                     extraction.locations, extraction.tables)
            ELSE clustered
          used == IF fallback THEN "fallback" ELSE "llm"
      IN  IF tb.present /\ filter_events_raises(discrete, tb)
          THEN Generated(discrete, <<>>, <<>>, used, TRUE, TRUE)
          ELSE
            LET filtered ==
                  IF tb.present
                  THEN filter_events_by_time_bounds(discrete, tb, Now(c))
                  ELSE discrete
            IN  IF PacketLoopRaises(filtered)
                THEN Generated(discrete, filtered, <<>>, used, tb.present,
                               TRUE)
                ELSE Generated(discrete, filtered,
                               PacketLoop(filtered, extraction.publish_date,
                                          c),
                               used, tb.present, FALSE)

-----------------------------------------------------------------------------
(* Inputs.                                                                 *)

Today(c) == [y |-> c.y, m |-> c.m, d |-> c.d]

\* Clocks: a week that crosses 29 February, one that crosses the new year,
\* and the middle and the last day of August 2024, at and after midnight
Clocks ==
    {[y |-> 2024, m |-> 3, d |-> 5, tod |-> 1],
     [y |-> 2025, m |-> 1, d |-> 3, tod |-> 1],
     [y |-> 2024, m |-> 8, d |-> 15, tod |-> 1],
     [y |-> 2024, m |-> 8, d |-> 31, tod |-> 0],
     [y |-> 2024, m |-> 8, d |-> 31, tod |-> 1]}

\* Dates an oracle may write into its reply
ReplyDates ==
    {Iso(2024, 8, 1), Iso(2024, 8, 31), Iso(2024, 2, 30), TextDate, NoneDate}

TriBool == {"True", "False", "None"}

TimeBoundsReplies ==
    {Reply("error", FALSE, "none", "invalid", NoTimeBounds),
     Reply("timeout", FALSE, "none", "invalid", NoTimeBounds),
     Reply("ok", FALSE, "none", "invalid", NoTimeBounds)}
    \cup {Reply("ok", TRUE, f, j, NoTimeBounds) :
            f \in {"none", "json", "bare"},
            j \in {"invalid", "array", "number", "string", "null"}}
    \cup {Reply("ok", TRUE, f, "object", TimeBounds(s, e, "past week", h)) :
            f \in {"none", "json"}, s \in ReplyDates, e \in ReplyDates,
            h \in TriBool}

-----------------------------------------------------------------------------
(* Inputs of the filters.                                                  *)

\* Time bounds handed to the filters: the window of August 2024 with and
\* without a constraint, and bounds that do not parse
FilterBounds ==
    {TimeBounds(Iso(2024, 8, 1), Iso(2024, 8, 31), "august 2024", h) :
        h \in TriBool}
    \cup {TimeBounds(Iso(2024, 8, 1), TextDate, "august", "True"),
          TimeBounds(NoneDate, Iso(2024, 8, 31), "august", "False")}

UrlItems ==
    {UrlItem("u_plain", <<>>, FALSE, FALSE),
     UrlItem("u_latest", <<>>, TRUE, FALSE),
     UrlItem("u_live_in_url", <<>>, FALSE, TRUE),
     UrlItem("u_in", <<Iso(2024, 8, 31)>>, FALSE, FALSE),
     UrlItem("u_out", <<Iso(2024, 9, 1)>>, TRUE, FALSE),
     UrlItem("u_us", <<DateStr("mdy_slash", 8, 15, 2024)>>, FALSE, FALSE),
     UrlItem("u_month", <<DateStr("month", 8, 15, 2024)>>, FALSE, FALSE),
     UrlItem("u_two", <<DateStr("ymd_slash", 2024, 8, 15), Iso(2024, 8, 1)>>,
             FALSE, FALSE)}

\* Start dates of events
EventDates ==
    {Iso(2024, 7, 31), Iso(2024, 8, 1), Iso(2024, 8, 31), Iso(2024, 9, 1),
     Iso(2024, 2, 30), DateStr("mdy_slash", 8, 15, 2024), RelativeDate,
     TextDate, EmptyDate, NoneDate, NumberDate}

FilterEvents ==
    {Event("e", s, e, "Kerala", LocList(<<"Kerala">>), EmptyCasualties,
           "low", "llm") :
        s \in EventDates, e \in {NoneDate}}
    \cup {Event("e", NoneDate, Iso(2024, 8, 15), "Kerala",
                LocList(<<"Kerala">>), EmptyCasualties, "low", "llm"),
          Event("e", Iso(2024, 7, 31), Iso(2024, 8, 15), "Kerala",
                LocList(<<"Kerala">>), EmptyCasualties, "low", "llm")}

-----------------------------------------------------------------------------
(* Inputs of calculate_severity and of packet assembly.                    *)

CasualtyStrs ==
    {CasualtyStr(TRUE, n) : n \in {0, 5, 11, 100, 101}}
    \cup {CasualtyStr(FALSE, 0)}

PacketCasualties ==
    {Casualties("absent", AbsentNum, AbsentNum, AbsentNum),
     Casualties("null", AbsentNum, AbsentNum, AbsentNum),
     EmptyCasualties,
     CasDict(IntNum(25), AbsentNum, AbsentNum),
     CasDict(IntNum(4), IntNum(20), IntNum(0)),
     CasDict(Num("str", 0), IntNum(20), AbsentNum),
     CasDict(IntNum(4), Num("null", 0), IntNum(0))}

PacketLocations ==
    {Locations("absent", <<>>), Locations("null", <<>>), LocList(<<>>),
     LocList(<<"Kerala">>), LocList(<<"Kerala", "Assam">>)}

PacketEvents ==
    {Event("event_1", s, e, pl, ls, c, sev, "llm") :
        s \in {NoneDate, EmptyDate, Iso(2024, 8, 15), RelativeDate, TextDate,
               NumberDate},
        e \in {NoneDate, Iso(2024, 8, 20)},
        pl \in {NoneStr, "", "Kerala"},
        ls \in PacketLocations,
        c \in PacketCasualties,
        sev \in {AbsentStr, "low", "medium", "high"}}

PublishDates == {NoneDate, Iso(2024, 8, 10), Iso(2024, 7, 20)}

-----------------------------------------------------------------------------
(* Inputs of generate_discrete_event_packets.                              *)

\* Dates as extract_structured_data finds them: day, month and year
\* separated by '/' or '-', or a month name
EntityDates ==
    <<DateStr("mdy_slash", 15, 8, 2024), DateStr("month", 8, 20, 2024)>>
EntityLocations == <<"Assam", "Kerala">>

Paragraphs ==
    {Paragraph(49, {EntityDates[1]}, {"Kerala"}, <<25>>, <<>>, <<>>),
     Paragraph(50, {EntityDates[1]}, {"Kerala"}, <<>>, <<>>, <<>>),
     Paragraph(51, {EntityDates[1]}, {"Kerala"}, <<25>>, <<>>, <<>>),
     Paragraph(120, {}, {}, <<>>, <<40>>, <<>>),
     Paragraph(120, {EntityDates[1], EntityDates[2]}, {"Kerala", "Assam"},
               <<60>>, <<12>>, <<>>),
     Paragraph(80, {}, {"Assam"}, <<>>, <<>>, <<300>>),
     Paragraph(80, {EntityDates[2]}, {}, <<>>, <<>>, <<>>)}

\* The table with header Date, Location, Deaths and one row
DeathsTable ==
    Table(<<"Date", "Location", "Deaths">>, <<<<"2024-08-15", "Kerala", "25">>>>)

Docs ==
    {Doc("extracted", ps, ts, EntityDates, EntityLocations, pd) :
        ps \in SeqsUpTo(Paragraphs, MaxParagraphs),
        ts \in {<<>>, <<DeathsTable>>},
        pd \in {NoneDate}}
    \cup {Doc("extracted", <<>>, <<DeathsTable>>, <<>>, <<>>, Iso(2024, 8, 10)),
          Doc("rejected", <<>>, <<DeathsTable>>, <<>>, <<>>, NoneDate)}

\* Events an oracle may write
LlmEvents ==
    {Event("event_1", s, NoneDate, pl,
           LocList(IF pl = "Kerala" THEN <<pl>> ELSE <<>>),
           CasDict(IntNum(4), IntNum(20), IntNum(0)), "medium", "llm") :
        s \in {Iso(2024, 8, 15), Iso(2024, 9, 1), RelativeDate, NoneDate},
        pl \in {"Kerala", NoneStr}}
    \cup {Event("event_2", Iso(2024, 8, 31), Iso(2024, 9, 2), "Assam",
                LocList(<<"Assam", "Kerala">>),
                CasDict(IntNum(150), AbsentNum, AbsentNum), "high", "llm"),
          Event("event_3", Iso(2024, 8, 31), NoneDate, "Assam",
                Locations("null", <<>>),
                Casualties("null", AbsentNum, AbsentNum, AbsentNum), "low",
                "llm")}

ClusterReply(status, text, fence, json, kind, evs) ==
    [status |-> status, text |-> text, fence |-> fence, json |-> json,
     tb |-> NoTimeBounds, events_kind |-> kind, events |-> evs]

FailingClusterReplies ==
    {ClusterReply("error", FALSE, "none", "invalid", "absent", <<>>),
     ClusterReply("timeout", FALSE, "none", "invalid", "absent", <<>>),
     ClusterReply("ok", FALSE, "none", "invalid", "absent", <<>>),
     ClusterReply("ok", TRUE, "json", "invalid", "absent", <<>>),
     ClusterReply("ok", TRUE, "bare", "array", "absent", <<>>),
     ClusterReply("ok", TRUE, "none", "object", "absent", <<>>),
     ClusterReply("ok", TRUE, "none", "object", "null", <<>>),
     ClusterReply("ok", TRUE, "none", "object", "bad_list", <<>>),
     ClusterReply("ok", TRUE, "json", "object", "list", <<>>)}

EventClusterReplies ==
    {ClusterReply("ok", TRUE, "json", "object", "list", evs) :
        evs \in SeqsUpTo(LlmEvents, MaxEvents) \ {<<>>}}

\* Documents handed to the oracle strategy when it yields events
ClusteredDocs ==
    {Doc("extracted", ps, <<DeathsTable>>, EntityDates, EntityLocations, pd) :
        ps \in {<<>>, <<Paragraph(120, {EntityDates[1], EntityDates[2]},
                                  {"Kerala", "Assam"}, <<60>>, <<12>>, <<>>)>>},
        pd \in PublishDates}

GenerateBounds ==
    {NoTimeBounds,
     TimeBounds(Iso(2024, 8, 1), Iso(2024, 8, 31), "august 2024", "True"),
     TimeBounds(Iso(2024, 8, 25), Iso(2024, 8, 31), "past week (default)",
                "False"),
     TimeBounds(TextDate, TextDate, "past week", "True")}

-----------------------------------------------------------------------------
(* Inputs of search_web_for_disaster_data and of node_validate_packets.    *)

\* Search results: one on an excluded domain, one on a preferred domain
\* without keywords, and two that score 1 and 2 by keywords alone
Hits ==
    {Hit(TRUE, FALSE, 5), Hit(FALSE, TRUE, 0), Hit(FALSE, FALSE, 1),
     Hit(FALSE, FALSE, 2)}

SearchReplies ==
    {SearchReply("raises", <<>>)}
    \cup {SearchReply("ok", hs) : hs \in SeqsUpTo(Hits, MaxHits)}

SearchTypes == {"all", "floods", "landslides", "invalid_type", "Floods", ""}

SearchInputs ==
    {SearchInput(t, n, m, i, d, r) :
        t \in SearchTypes, n \in {1, 2}, m \in BOOLEAN, i \in BOOLEAN,
        d \in BOOLEAN, r \in SearchReplies}

\* Consumed messages: well-formed packets, packets whose metadata lacks a
\* disaster type or is no dict, packets that lack a field, and values that
\* are no dict at all
Messages ==
    {Message("dict", TRUE, TRUE, TRUE, "dict", dt) :
        dt \in {"floods", "", NoneStr, AbsentStr}}
    \cup {Message("dict", TRUE, TRUE, TRUE, "null", AbsentStr),
          Message("dict", TRUE, TRUE, TRUE, "str", AbsentStr),
          Message("dict", FALSE, TRUE, TRUE, "dict", "floods"),
          Message("dict", TRUE, FALSE, TRUE, "dict", "floods"),
          Message("dict", TRUE, TRUE, FALSE, "absent", AbsentStr),
          Message("dict", FALSE, FALSE, FALSE, "absent", AbsentStr),
          Message("list", TRUE, TRUE, TRUE, "absent", AbsentStr),
          Message("list", FALSE, FALSE, FALSE, "absent", AbsentStr),
          Message("str", TRUE, TRUE, TRUE, "absent", AbsentStr),
          Message("str", FALSE, FALSE, FALSE, "absent", AbsentStr),
          Message("null", FALSE, FALSE, FALSE, "absent", AbsentStr),
          Message("number", FALSE, FALSE, FALSE, "absent", AbsentStr)}

-----------------------------------------------------------------------------
(* Inputs of extract_structured_data, crawl_urls_with_ai and the consumer. *)

MaxMentions == 3
MaxCrawlUrls == 2
MaxBatchSize == 3
MaxBatches == 2

CasualtyNumbers == {"5", "30"}

Mentions ==
    {Mention(p, n) : p \in 1..CasualtyPatterns, n \in CasualtyNumbers}

CrawlUrls(n) == [i \in 1..n |-> "url_" \o ToString(i)]

Attempts == {"success", "failed", "timeout", "exception"}

CrawlInputs ==
    UNION {{CrawlInput(CrawlUrls(n), f, i, fa, at, ri, h) :
                f \in BOOLEAN, i \in BOOLEAN,
                fa \in {NeverFails} \cup 0..n, at \in [1..n -> Attempts],
                ri \in BOOLEAN, h \in [1..n -> {"ok", "error"}]} :
           n \in 0..MaxCrawlUrls}

\* Messages of the topic: a well-formed packet, one without a disaster type,
\* and one whose temporal section is null
TopicMessages ==
    {Message("dict", TRUE, TRUE, TRUE, "dict", "floods"),
     Message("dict", TRUE, TRUE, TRUE, "dict", ""),
     [Message("dict", TRUE, TRUE, TRUE, "dict", "floods") EXCEPT
        !.sections = "null"]}

\* Inputs of collect_and_process_disaster_data: the oracle's replies to the
\* time-bounds prompt (a failure, the window of August 2024, bounds that do
\* not parse), the search with max_results = max_urls * 3, what the text of
\* a discovered URL says, how the crawl of a URL goes, what the page holds
\* and what the oracle clusters
CollectReplies ==
    {Reply("error", FALSE, "none", "invalid", NoTimeBounds),
     Reply("ok", TRUE, "json", "object",
           TimeBounds(Iso(2024, 8, 1), Iso(2024, 8, 31), "past week", "True")),
     Reply("ok", TRUE, "json", "object",
           TimeBounds(Iso(2024, 8, 1), TextDate, "past week", "True"))}

CollectSearchInputs ==
    {SearchInput(t, DefaultMaxUrls * 3, m, TRUE, TRUE, r) :
        t \in {"floods", "invalid_type"}, m \in BOOLEAN,
        r \in {SearchReply("raises", <<>>),
               SearchReply("ok", <<Hit(FALSE, TRUE, 0)>>)}}

CollectUrlItems ==
    {UrlItem("u_plain", <<>>, FALSE, FALSE),
     UrlItem("u_in", <<Iso(2024, 8, 31)>>, FALSE, FALSE)}

CollectCrawlInputs(to_crawl) ==
    {CrawlInput(to_crawl, TRUE, i, NeverFails, at, TRUE, h) :
        i \in BOOLEAN,
        at \in [1..Len(to_crawl) -> {"success", "timeout"}],
        h \in [1..Len(to_crawl) -> {"ok", "error"}]}

CollectDocs ==
    {Doc("extracted",
         <<Paragraph(120, {EntityDates[1], EntityDates[2]},
                     {"Kerala", "Assam"}, <<60>>, <<12>>, <<>>)>>,
         <<DeathsTable>>, EntityDates, EntityLocations, NoneDate),
     Doc("rejected", <<>>, <<DeathsTable>>, <<>>, <<>>, NoneDate)}

CollectClusterReplies ==
    {ClusterReply("error", FALSE, "none", "invalid", "absent", <<>>),
     ClusterReply("ok", TRUE, "json", "object", "list",
        <<Event("event_2", Iso(2024, 8, 31), Iso(2024, 9, 2), "Assam",
                LocList(<<"Assam", "Kerala">>),
                CasDict(IntNum(150), AbsentNum, AbsentNum), "high", "llm")>>),
     ClusterReply("ok", TRUE, "json", "object", "list",
        <<Event("event_1", Iso(2024, 9, 1), NoneDate, "Kerala",
                LocList(<<"Kerala">>),
                CasDict(IntNum(4), IntNum(20), IntNum(0)), "medium",
                "llm")>>)}

KafkaInputs ==
    {KafkaInput(b, m, i, c, t) :
        b \in 1..MaxBatchSize, m \in BOOLEAN, i \in BOOLEAN, c \in BOOLEAN,
        t \in SeqsUpTo(TopicMessages, MaxMessages)}

-----------------------------------------------------------------------------
(* The state machine.                                                      *)

NoDoc == Doc("none", <<>>, <<>>, <<>>, <<>>, NoneDate)
Noon == [y |-> 2024, m |-> 8, d |-> 15, tod |-> 1]

InitTimeBounds ==
    /\ fn = "extract_time_bounds_from_query"
    /\ clock \in Clocks
    /\ llm_response \in TimeBoundsReplies
    /\ time_bounds = NoTimeBounds
    /\ urls = <<>> /\ events = <<>>
    /\ casualties = <<>> /\ num_locations = 0
    /\ doc = NoDoc

InitFilterUrls ==
    /\ fn = "filter_urls_by_date_relevance"
    /\ clock = Noon
    /\ llm_response = NoReply
    /\ time_bounds \in FilterBounds
    /\ urls \in SeqsUpTo(UrlItems, MaxUrls)
    /\ events = <<>>
    /\ casualties = <<>> /\ num_locations = 0
    /\ doc = NoDoc

InitFilterEvents ==
    /\ fn = "filter_events_by_time_bounds"
    /\ clock \in Clocks
    /\ llm_response = NoReply
    /\ time_bounds \in FilterBounds
    /\ urls = <<>>
    /\ events \in SeqsUpTo(FilterEvents, MaxEvents)
    /\ casualties = <<>> /\ num_locations = 0
    /\ doc = NoDoc

InitSeverity ==
    /\ fn = "calculate_severity"
    /\ clock = Noon
    /\ llm_response = NoReply
    /\ time_bounds = NoTimeBounds
    /\ urls = <<>> /\ events = <<>>
    /\ casualties \in SeqsUpTo(CasualtyStrs, MaxCasualties)
    /\ num_locations \in 0..MaxLocations
    /\ doc = NoDoc

InitCreatePacket ==
    /\ fn = "create_packet_from_llm_event"
    /\ clock = Noon
    /\ llm_response = NoReply
    /\ time_bounds = NoTimeBounds
    /\ urls = <<>>
    /\ \E e \in PacketEvents : events = <<e>>
    /\ casualties = <<>> /\ num_locations = 0
    /\ \E pd \in PublishDates : doc = [NoDoc EXCEPT !.publish_date = pd]

InitGenerate ==
    /\ fn = "generate_discrete_event_packets"
    /\ clock = Noon
    /\ \/ llm_response \in FailingClusterReplies /\ doc \in Docs
       \/ llm_response \in EventClusterReplies /\ doc \in ClusteredDocs
    /\ time_bounds \in GenerateBounds
    /\ urls = <<>> /\ events = <<>>
    /\ casualties = <<>> /\ num_locations = 0

\* No call of the agent's event functions is in progress
IdleAgent ==
    /\ clock = Noon
    /\ llm_response = NoReply
    /\ time_bounds = NoTimeBounds
    /\ urls = <<>> /\ events = <<>>
    /\ casualties = <<>> /\ num_locations = 0
    /\ doc = NoDoc

\* No call of the search, of the consumer's validation, of the extraction,
\* of the crawler or of the Kafka client is in progress
IdleSearch == search_input = NoSearchInput
IdleConsumer == state = NoConsumerState
IdleExtract == page_text = <<>>
IdleCrawl == crawl_input = NoCrawlInput
IdleKafka == kafka = NoKafka /\ db = "ok"

InitSearch ==
    /\ fn = "search_web_for_disaster_data"
    /\ IdleAgent
    /\ search_input \in SearchInputs
    /\ state = NoConsumerState
    /\ IdleExtract /\ IdleCrawl /\ IdleKafka

\* The state node_consume_kafka hands over
InitValidate ==
    /\ fn = "node_validate_packets"
    /\ IdleAgent
    /\ search_input = NoSearchInput
    /\ \E msgs \in SeqsUpTo(Messages, MaxMessages) :
          state = ConsumerState(msgs, <<>>, <<>>, "kafka_consumed")
    /\ IdleExtract /\ IdleCrawl /\ IdleKafka

InitExtract ==
    /\ fn = "extract_structured_data"
    /\ IdleAgent /\ IdleSearch /\ IdleConsumer /\ IdleCrawl /\ IdleKafka
    /\ page_text \in SeqsUpTo(Mentions, MaxMentions)

InitCrawl ==
    /\ fn = "crawl_urls_with_ai"
    /\ IdleAgent /\ IdleSearch /\ IdleConsumer /\ IdleExtract /\ IdleKafka
    /\ crawl_input \in CrawlInputs

InitConsumeKafka ==
    /\ fn = "consume_kafka_messages"
    /\ IdleAgent /\ IdleSearch /\ IdleConsumer /\ IdleExtract /\ IdleCrawl
    /\ kafka \in KafkaInputs
    /\ db = "ok"

\* node_consume_kafka calls consume_kafka_messages with use_mock=False
InitConsumer ==
    /\ fn = "run_disaster_consumer"
    /\ IdleAgent /\ IdleSearch /\ IdleConsumer /\ IdleExtract /\ IdleCrawl
    /\ kafka \in {k \in KafkaInputs : ~k.use_mock}
    /\ db \in {"ok", "error"}

\* collect_and_process_disaster_data with max_urls at its default
InitCollect ==
    /\ fn = "collect_and_process_disaster_data"
    /\ clock = Noon
    /\ llm_response \in CollectReplies
    /\ time_bounds = NoTimeBounds
    /\ urls = <<>> /\ events = <<>>
    /\ casualties = <<>> /\ num_locations = 0
    /\ doc = NoDoc
    /\ search_input \in CollectSearchInputs
    /\ IdleConsumer /\ IdleExtract /\ IdleCrawl /\ IdleKafka

\* run_consumer --continuous
InitRunner ==
    /\ fn = "run_consumer"
    /\ IdleAgent /\ IdleSearch /\ IdleConsumer /\ IdleExtract /\ IdleCrawl
    /\ IdleKafka

Init ==
    /\ pc = "call"
    /\ outcome = "pending"
    /\ filtered_urls = <<>>
    /\ filtered_events = <<>>
    /\ severity = ""
    /\ packets = <<>>
    /\ strategy = "none"
    /\ results = NoSearchResult
    /\ searches = 0
    /\ found_casualties = <<>>
    /\ crawl_results = NoCrawlResult
    /\ trace = <<>>
    /\ collected = NoCollected
    /\ messages = <<>>
    /\ running = TRUE
    /\ batch_count = 0
    /\ last_batch = "none"
    /\ \/ /\ \/ InitTimeBounds
             \/ InitFilterUrls
             \/ InitFilterEvents
             \/ InitSeverity
             \/ InitCreatePacket
             \/ InitGenerate
          /\ search_input = NoSearchInput
          /\ state = NoConsumerState
          /\ IdleExtract /\ IdleCrawl /\ IdleKafka
       \/ InitSearch
       \/ InitValidate
       \/ InitExtract
       \/ InitCrawl
       \/ InitConsumeKafka
       \/ InitConsumer
       \/ InitRunner
       \/ InitCollect

CallExtractTimeBounds ==
    /\ pc = "call"
    /\ fn = "extract_time_bounds_from_query"
    /\ time_bounds' = extract_time_bounds_from_query(Today(clock), llm_response)
    /\ pc' = "return"
    /\ outcome' = "returned"
    /\ UNCHANGED <<fn, clock, llm_response, urls, filtered_urls, doc, events,
                   filtered_events, casualties, num_locations, severity,
                   packets, strategy>>
    /\ UNCHANGED <<search_vars, consumer_vars, rest_vars>>

CallFilterUrls ==
    /\ pc = "call"
    /\ fn = "filter_urls_by_date_relevance"
    /\ pc' = "return"
    /\ IF filter_urls_raises(urls, time_bounds)
       THEN outcome' = "raised" /\ UNCHANGED filtered_urls
       ELSE /\ outcome' = "returned"
            /\ filtered_urls' = filter_urls_by_date_relevance(urls, time_bounds)
    /\ UNCHANGED <<fn, clock, llm_response, time_bounds, urls, doc, events,
                   filtered_events, casualties, num_locations, severity,
                   packets, strategy>>
    /\ UNCHANGED <<search_vars, consumer_vars, rest_vars>>

CallFilterEvents ==
    /\ pc = "call"
    /\ fn = "filter_events_by_time_bounds"
    /\ pc' = "return"
    /\ IF filter_events_raises(events, time_bounds)
       THEN outcome' = "raised" /\ UNCHANGED filtered_events
       ELSE /\ outcome' = "returned"
            /\ filtered_events' =
                 filter_events_by_time_bounds(events, time_bounds, Now(clock))
    /\ UNCHANGED <<fn, clock, llm_response, time_bounds, urls, filtered_urls,
                   doc, events, casualties, num_locations, severity, packets,
                   strategy>>
    /\ UNCHANGED <<search_vars, consumer_vars, rest_vars>>

CallCalculateSeverity ==
    /\ pc = "call"
    /\ fn = "calculate_severity"
    /\ pc' = "return"
    /\ outcome' = "returned"
    /\ severity' = calculate_severity(casualties, num_locations)
    /\ UNCHANGED <<fn, clock, llm_response, time_bounds, urls, filtered_urls,
                   doc, events, filtered_events, casualties, num_locations,
                   packets, strategy>>
    /\ UNCHANGED <<search_vars, consumer_vars, rest_vars>>

CallCreatePacket ==
    /\ pc = "call"
    /\ fn = "create_packet_from_llm_event"
    /\ pc' = "return"
    /\ IF create_packet_raises(events[1])
       THEN outcome' = "raised" /\ UNCHANGED packets
       ELSE /\ outcome' = "returned"
            /\ packets' = <<create_packet_from_llm_event(
                               events[1], doc.publish_date, clock)>>
    /\ UNCHANGED <<fn, clock, llm_response, time_bounds, urls, filtered_urls,
                   doc, events, filtered_events, casualties, num_locations,
                   severity, strategy>>
    /\ UNCHANGED <<search_vars, consumer_vars, rest_vars>>

\* The loop skips an extraction whose status is not "extracted"
GenerateSkip ==
    /\ pc = "call"
    /\ fn = "generate_discrete_event_packets"
    /\ doc.status # "extracted"
    /\ pc' = "return"
    /\ outcome' = "returned"
    /\ UNCHANGED <<fn, clock, llm_response, time_bounds, urls, filtered_urls,
                   doc, events, filtered_events, casualties, num_locations,
                   severity, packets, strategy>>
    /\ UNCHANGED <<search_vars, consumer_vars, rest_vars>>

\* discrete_events = cluster_related_content_with_llm(...)
GenerateCluster ==
    /\ pc = "call"
    /\ fn = "generate_discrete_event_packets"
    /\ doc.status = "extracted"
    /\ events' = cluster_related_content_with_llm(llm_response)
    /\ strategy' = "llm"
    /\ pc' = IF NeedsFallback(events') THEN "fallback" ELSE "filter"
    /\ UNCHANGED <<fn, clock, llm_response, time_bounds, urls, filtered_urls,
                   doc, filtered_events, casualties, num_locations, severity,
                   packets, outcome>>
    /\ UNCHANGED <<search_vars, consumer_vars, rest_vars>>

\* if not discrete_events: discrete_events = extract_discrete_events_fallback(...)
GenerateFallback ==
    /\ pc = "fallback"
    /\ events' = extract_discrete_events_fallback(
                     doc.paragraphs, doc.dates, doc.locations, doc.tables)
    /\ strategy' = "fallback"
    /\ pc' = "filter"
    /\ UNCHANGED <<fn, clock, llm_response, time_bounds, urls, filtered_urls,
                   doc, filtered_events, casualties, num_locations, severity,
                   packets, outcome>>
    /\ UNCHANGED <<search_vars, consumer_vars, rest_vars>>

\* if time_bounds: discrete_events = filter_events_by_time_bounds(...)
GenerateFilter ==
    /\ pc = "filter"
    /\ IF time_bounds.present /\ filter_events_raises(events, time_bounds)
       THEN /\ outcome' = "raised"
            /\ pc' = "return"
            /\ UNCHANGED filtered_events
       ELSE /\ filtered_events' =
                 IF time_bounds.present
                 THEN filter_events_by_time_bounds(events, time_bounds,
                                                   Now(clock))
                 ELSE events
            /\ pc' = "packets"
            /\ UNCHANGED outcome
    /\ UNCHANGED <<fn, clock, llm_response, time_bounds, urls, filtered_urls,
                   doc, events, casualties, num_locations, severity, packets,
                   strategy>>
    /\ UNCHANGED <<search_vars, consumer_vars, rest_vars>>

\* for event in discrete_events: packets.append(create_packet_from_llm_event(...))
GeneratePackets ==
    /\ pc = "packets"
    /\ pc' = "return"
    /\ IF PacketLoopRaises(filtered_events)
       THEN outcome' = "raised" /\ UNCHANGED packets
       ELSE /\ outcome' = "returned"
            /\ packets' = PacketLoop(filtered_events, doc.publish_date, clock)
    /\ UNCHANGED <<fn, clock, llm_response, time_bounds, urls, filtered_urls,
                   doc, events, filtered_events, casualties, num_locations,
                   severity, strategy>>
    /\ UNCHANGED <<search_vars, consumer_vars, rest_vars>>

CallSearchWeb ==
    /\ pc = "call"
    /\ fn = "search_web_for_disaster_data"
    /\ results' = search_web_for_disaster_data(search_input)
    /\ searches' = SearchCalls(search_input)
    /\ pc' = "return"
    /\ outcome' = "returned"
    /\ UNCHANGED <<fn, search_input, agent_vars, consumer_vars, rest_vars>>

CallValidatePackets ==
    /\ pc = "call"
    /\ fn = "node_validate_packets"
    /\ state' = node_validate_packets(state)
    /\ pc' = "return"
    /\ outcome' = "returned"
    /\ UNCHANGED <<fn, agent_vars, search_vars, rest_vars>>

CallExtractStructuredData ==
    /\ pc = "call"
    /\ fn = "extract_structured_data"
    /\ found_casualties' = extract_casualties(page_text)
    /\ pc' = "return"
    /\ outcome' = "returned"
    /\ UNCHANGED <<fn, page_text, agent_vars, search_vars, consumer_vars,
                   crawl_vars, collect_vars, kafka_vars, runner_vars>>

CallCrawlUrls ==
    /\ pc = "call"
    /\ fn = "crawl_urls_with_ai"
    /\ crawl_results' = crawl_urls_with_ai(crawl_input)
    /\ pc' = "return"
    /\ outcome' = "returned"
    /\ UNCHANGED <<fn, crawl_input, agent_vars, search_vars, consumer_vars,
                   extract_vars, collect_vars, kafka_vars, runner_vars>>

CallConsumeKafka ==
    /\ pc = "call"
    /\ fn = "consume_kafka_messages"
    /\ messages' = consume_kafka_messages(kafka)
    /\ pc' = "return"
    /\ outcome' = "returned"
    /\ UNCHANGED <<fn, kafka, db, agent_vars, search_vars, consumer_vars,
                   extract_vars, crawl_vars, collect_vars, runner_vars>>

\* run_disaster_consumer builds initial_state and invokes the workflow at
\* its entry point
CallRunDisasterConsumer ==
    /\ pc = "call"
    /\ fn = "run_disaster_consumer"
    /\ state' = initial_state(kafka.batch_size)
    /\ pc' = EntryPoint
    /\ UNCHANGED <<fn, outcome, agent_vars, search_vars, extract_vars,
                   crawl_vars, collect_vars, kafka_vars, runner_vars>>

\* The workflow runs the node it is at and follows the node's edge; the
\* final state is returned at END
RunNode(node, new_state) ==
    /\ fn = "run_disaster_consumer"
    /\ pc = node
    /\ state' = new_state
    /\ trace' = Append(trace, Call(node, NoTimeBounds))
    /\ pc' = NextNode(node, new_state)
    /\ outcome' = IF NextNode(node, new_state) = END THEN "returned"
                  ELSE outcome
    /\ UNCHANGED <<fn, agent_vars, search_vars, extract_vars, crawl_vars,
                   collected, kafka_vars, runner_vars>>

NodeConsumeKafka == RunNode("consume_kafka", node_consume_kafka(state, kafka))

NodeValidatePackets ==
    RunNode("validate_packets", node_validate_packets(state))

NodeTransformData == RunNode("transform_data", node_transform_data(state))

NodeStoreInPostgres ==
    RunNode("store_in_postgres", node_store_in_postgres(state, db))

NodeUpdateStatistics ==
    RunNode("update_statistics", node_update_statistics(state))

\* What no stage of collect_and_process_disaster_data changes
CollectUnchanged ==
    UNCHANGED <<fn, clock, casualties, num_locations, severity, search_input,
                consumer_vars, extract_vars, kafka_vars, runner_vars>>

\* Step 0: time_bounds = extract_time_bounds_from_query(...)
CollectTimeBounds ==
    /\ pc = "call"
    /\ fn = "collect_and_process_disaster_data"
    /\ time_bounds' = extract_time_bounds_from_query(Today(clock), llm_response)
    /\ collected' = RecordStep(Collected("success", AbsentStr, <<>>, <<>>,
                                         time_bounds'),
                               "0_time_extraction")
    /\ trace' = Append(trace, Call("extract_time_bounds_from_query",
                                   NoTimeBounds))
    /\ pc' = "search"
    /\ UNCHANGED <<llm_response, urls, filtered_urls, doc, events,
                   filtered_events, packets, strategy, outcome, results,
                   searches, crawl_vars>>
    /\ CollectUnchanged

\* Step 1: search, and the return when it found no URL
CollectSearch ==
    /\ pc = "search"
    /\ fn = "collect_and_process_disaster_data"
    /\ results' = search_web_for_disaster_data(search_input)
    /\ searches' = SearchCalls(search_input)
    /\ trace' = Append(trace, Call("search_web_for_disaster_data",
                                   NoTimeBounds))
    /\ IF SearchFailed(results')
       THEN /\ collected' = Failed(RecordStep(collected, "1_search"),
                                   "No URLs found")
            /\ pc' = "return"
            /\ outcome' = "returned"
       ELSE /\ collected' = RecordStep(collected, "1_search")
            /\ pc' = "url_filtering"
            /\ UNCHANGED outcome
    /\ UNCHANGED <<llm_response, time_bounds, urls, filtered_urls, doc,
                   events, filtered_events, packets, strategy, crawl_vars>>
    /\ CollectUnchanged

\* Step 1.5: filter_urls_by_date_relevance(discovered_urls, time_bounds), on
\* what the URL, title and snippet of each discovered URL say
CollectFilterUrls ==
    /\ pc = "url_filtering"
    /\ fn = "collect_and_process_disaster_data"
    /\ \E items \in [1..Len(results.discovered_urls) -> CollectUrlItems] :
          /\ urls' = items
          /\ IF filter_urls_raises(items, time_bounds)
             THEN /\ outcome' = "raised"
                  /\ pc' = "return"
                  /\ UNCHANGED <<filtered_urls, collected>>
             ELSE /\ filtered_urls' =
                        filter_urls_by_date_relevance(items, time_bounds)
                  /\ collected' = RecordStep(collected, "1.5_url_filtering")
                  /\ pc' = "crawl"
                  /\ UNCHANGED outcome
    /\ trace' = Append(trace, Call("filter_urls_by_date_relevance",
                                   time_bounds))
    /\ UNCHANGED <<llm_response, time_bounds, doc, events, filtered_events,
                   packets, strategy, results, searches, crawl_vars>>
    /\ CollectUnchanged

\* Step 2: crawl_urls_with_ai(urls_to_crawl, use_simple_fallback=True), and
\* the return when no crawl succeeded
CollectCrawl ==
    /\ pc = "crawl"
    /\ fn = "collect_and_process_disaster_data"
    /\ crawl_input' \in
          CollectCrawlInputs(UrlsToCrawl(filtered_urls, DefaultMaxUrls))
    /\ crawl_results' = crawl_urls_with_ai(crawl_input')
    /\ trace' = Append(trace, Call("crawl_urls_with_ai", NoTimeBounds))
    /\ IF AllCrawlsFailed(crawl_results')
       THEN /\ collected' = Failed(RecordStep(collected, "2_crawl"),
                                   "All crawls failed")
            /\ pc' = "return"
            /\ outcome' = "returned"
       ELSE /\ collected' = RecordStep(collected, "2_crawl")
            /\ pc' = "extraction"
            /\ UNCHANGED outcome
    /\ UNCHANGED <<llm_response, time_bounds, urls, filtered_urls, doc,
                   events, filtered_events, packets, strategy, results,
                   searches>>
    /\ CollectUnchanged

\* Step 3: validate_and_extract; with max_urls = 1 the one page crawled is
\* extracted or skipped
CollectExtract ==
    /\ pc = "extraction"
    /\ fn = "collect_and_process_disaster_data"
    /\ doc' \in CollectDocs
    /\ collected' = RecordStep(collected, "3_extraction")
    /\ trace' = Append(trace, Call("validate_and_extract", NoTimeBounds))
    /\ pc' = "kafka"
    /\ UNCHANGED <<llm_response, time_bounds, urls, filtered_urls, events,
                   filtered_events, packets, strategy, outcome, results,
                   searches, crawl_vars>>
    /\ CollectUnchanged

\* Step 4: generate_discrete_event_packets(search_results,
\* validated_results, time_bounds=time_bounds), which hands its time_bounds
\* to filter_events_by_time_bounds
CollectGenerate ==
    /\ pc = "kafka"
    /\ fn = "collect_and_process_disaster_data"
    /\ llm_response' \in CollectClusterReplies
    /\ LET g == generate_discrete_event_packets(doc, llm_response',
                                                time_bounds, clock)
       IN  /\ events' = g.events
           /\ filtered_events' = g.filtered_events
           /\ strategy' = g.strategy
           /\ packets' = g.packets
           /\ trace' = trace
                \o <<Call("generate_discrete_event_packets", time_bounds)>>
                \o (IF g.filter_called
                    THEN <<Call("filter_events_by_time_bounds", time_bounds)>>
                    ELSE <<>>)
           /\ IF g.raised
              THEN outcome' = "raised" /\ UNCHANGED collected
              ELSE /\ outcome' = "returned"
                   /\ collected' =
                        [RecordStep(collected, "4_kafka") EXCEPT
                            !.final_packets = g.packets]
    /\ pc' = "return"
    /\ UNCHANGED <<time_bounds, urls, filtered_urls, doc, results, searches,
                   crawl_vars>>
    /\ CollectUnchanged

\* run_consumer in continuous mode.  main installs signal_handler for
\* SIGINT and SIGTERM and enters the loop
RunnerUnchanged ==
    UNCHANGED <<fn, agent_vars, search_vars, consumer_vars, extract_vars,
                crawl_vars, collect_vars, kafka_vars>>

CallRunConsumer ==
    /\ pc = "call"
    /\ fn = "run_consumer"
    /\ pc' = "while"
    /\ UNCHANGED <<outcome, runner_vars>>
    /\ RunnerUnchanged

\* while running
LoopTest_Always(flag) == TRUE
LoopTest(flag) == flag

RunnerWhile ==
    /\ fn = "run_consumer"
    /\ pc = "while"
    /\ IF LoopTest(running)
       THEN /\ batch_count < MaxBatches
            /\ pc' = "try"
            /\ UNCHANGED outcome
       ELSE /\ pc' = "return"
            /\ outcome' = "returned"
    /\ UNCHANGED runner_vars
    /\ RunnerUnchanged

\* result = run_disaster_consumer(...): the batch returns, and is counted,
\* or raises, and the exception is caught
RunnerBatch ==
    /\ fn = "run_consumer"
    /\ pc = "try"
    /\ \E result \in {"returned", "raised"} :
          /\ last_batch' = result
          /\ batch_count' = IF result = "returned" THEN batch_count + 1
                            ELSE batch_count
    /\ pc' = "wait"
    /\ UNCHANGED <<outcome, running>>
    /\ RunnerUnchanged

\* if running: time.sleep(args.poll_interval), after the batch and in the
\* except clause alike
RunnerWait ==
    /\ fn = "run_consumer"
    /\ pc = "wait"
    /\ pc' = IF running THEN "sleep" ELSE "while"
    /\ UNCHANGED <<outcome, runner_vars>>
    /\ RunnerUnchanged

\* time.sleep returns when the interval is over; a signal whose handler
\* returns does not cut it short
RunnerSleep ==
    /\ fn = "run_consumer"
    /\ pc = "sleep"
    /\ pc' = "while"
    /\ UNCHANGED <<outcome, runner_vars>>
    /\ RunnerUnchanged

\* SIGINT or SIGTERM is delivered and signal_handler runs, between any two
\* steps of the loop
SignalHandler ==
    /\ fn = "run_consumer"
    /\ pc \in {"while", "try", "wait", "sleep"}
    /\ running
    /\ running' = FALSE
    /\ UNCHANGED <<pc, outcome, batch_count, last_batch>>
    /\ RunnerUnchanged

RunnerNext == RunnerWhile \/ RunnerBatch \/ RunnerWait \/ RunnerSleep

Next ==
    \/ CallExtractTimeBounds
    \/ CallFilterUrls
    \/ CallFilterEvents
    \/ CallCalculateSeverity
    \/ CallCreatePacket
    \/ GenerateSkip
    \/ GenerateCluster
    \/ GenerateFallback
    \/ GenerateFilter
    \/ GeneratePackets
    \/ CallSearchWeb
    \/ CallValidatePackets
    \/ CallExtractStructuredData
    \/ CallCrawlUrls
    \/ CallConsumeKafka
    \/ CallRunDisasterConsumer
    \/ NodeConsumeKafka
    \/ NodeValidatePackets
    \/ NodeTransformData
    \/ NodeStoreInPostgres
    \/ NodeUpdateStatistics
    \/ CallRunConsumer
    \/ RunnerWhile
    \/ RunnerBatch
    \/ RunnerWait
    \/ RunnerSleep
    \/ SignalHandler
    \/ CollectTimeBounds
    \/ CollectSearch
    \/ CollectFilterUrls
    \/ CollectCrawl
    \/ CollectExtract
    \/ CollectGenerate

Spec == Init /\ [][Next]_vars

\* The interpreter keeps running the main thread of run_consumer: a step
\* of the loop that can be taken is taken
FairSpec == Spec /\ WF_vars(RunnerNext)

-----------------------------------------------------------------------------
(* Properties of extract_time_bounds_from_query.                           *)

Returned(f) == fn = f /\ pc = "return" /\ outcome = "returned"

\* C1: every TimeBounds returned by extract_time_bounds_from_query has a
\* start_date and an end_date that are valid calendar dates with
\* start_date <= end_date, whatever JSON object the oracle returns.
C1_TimeBoundsWellFormed ==
    Returned("extract_time_bounds_from_query") =>
        /\ ParsesYmd(time_bounds.start_date)
        /\ ParsesYmd(time_bounds.end_date)
        /\ ToOrdinal(time_bounds.start_date.a, time_bounds.start_date.b,
                     time_bounds.start_date.c)
             <= ToOrdinal(time_bounds.end_date.a, time_bounds.end_date.b,
                          time_bounds.end_date.c)

\* The oracle call failed: an error, a timeout, or a reply that is not
\* parsable JSON
OracleCallFailed(r) ==
    \/ r.status \in {"error", "timeout"}
    \/ r.status = "ok" /\ r.text /\ r.json = "invalid"

\* C2: when the oracle call fails, no exception reaches the caller and the
\* result is start_date = today - 7 days, end_date = today,
\* has_time_constraint = false, temporal_description = 'past week (default)'.
C2_OracleFailureFallsBack ==
    (fn = "extract_time_bounds_from_query" /\ pc = "return"
       /\ OracleCallFailed(llm_response)) =>
        /\ outcome = "returned"
        /\ time_bounds.present
        /\ time_bounds.has_time_constraint = "False"
        /\ time_bounds.temporal_description = "past week (default)"
        /\ time_bounds.end_date = Iso(clock.y, clock.m, clock.d)
        /\ ParsesYmd(time_bounds.start_date)
        /\ ToOrdinal(time_bounds.start_date.a, time_bounds.start_date.b,
                     time_bounds.start_date.c)
             = ToOrdinal(clock.y, clock.m, clock.d) - 7

\* A reply that is not JSON on 5 March 2024: the window starts on 27
\* February, across the leap day
C2_Witness ==
    /\ Returned("extract_time_bounds_from_query")
    /\ llm_response.status = "ok" /\ llm_response.json = "invalid"
    /\ llm_response.fence = "json"
    /\ clock.y = 2024 /\ clock.m = 3 /\ clock.d = 5
    /\ time_bounds.start_date = Iso(2024, 2, 27)
    /\ time_bounds.has_time_constraint = "False"

-----------------------------------------------------------------------------
(* Properties of the two filters.                                          *)

OrdinalOf(s) == ToOrdinal(s.a, s.b, s.c)

\* The event's start_date parses as a calendar date within the bounds, both
\* ends inclusive
StartDateWithin(e, tb) ==
    /\ ParsesYmd(e.start_date)
    /\ OrdinalOf(tb.start_date) <= OrdinalOf(e.start_date)
    /\ OrdinalOf(e.start_date) <= OrdinalOf(tb.end_date)

\* The current date-time lies between midnight of start_date and midnight
\* of end_date
NowWithin(c, tb) ==
    /\ OrdinalOf(tb.start_date) <= ToOrdinal(c.y, c.m, c.d)
    /\ \/ ToOrdinal(c.y, c.m, c.d) < OrdinalOf(tb.end_date)
       \/ ToOrdinal(c.y, c.m, c.d) = OrdinalOf(tb.end_date) /\ c.tod = 0

\* C3 as stated: with has_time_constraint true, an event is kept if and only
\* if its start_date parses as a calendar date within the bounds; every other
\* event is dropped.
C3_KeptIffStartDateWithin ==
    (Returned("filter_events_by_time_bounds")
       /\ time_bounds.has_time_constraint = "True") =>
        filtered_events =
            SelectSeq(events, LAMBDA e : StartDateWithin(e, time_bounds))

\* C3 as amended: with has_time_constraint true, an event is kept if and only
\* if its start_date parses as a YYYY-MM-DD date within the bounds (both ends
\* inclusive, end_date not consulted), or its start_date is a RELATIVE:
\* marker and the current date-time lies within the bounds; events with no
\* start_date or any other unparsable start_date are dropped.
C3_KeptIffWithinOrRelativeNow ==
    (Returned("filter_events_by_time_bounds")
       /\ time_bounds.has_time_constraint = "True") =>
        filtered_events =
            SelectSeq(events,
                      LAMBDA e : \/ StartDateWithin(e, time_bounds)
                                 \/ /\ e.start_date.kind = "relative"
                                    /\ NowWithin(clock, time_bounds))

\* The event of the last day of the window is kept and the event of the day
\* after is dropped
C3_Witness ==
    /\ Returned("filter_events_by_time_bounds")
    /\ time_bounds.has_time_constraint = "True"
    /\ Len(events) = 2
    /\ events[1].start_date = Iso(2024, 8, 31)
    /\ events[2].start_date = Iso(2024, 9, 1)
    /\ filtered_events = <<events[1]>>

\* C4: when has_time_constraint is false, filter_urls_by_date_relevance
\* returns the candidate list unchanged and filter_events_by_time_bounds
\* returns the event list unchanged, events without a start_date included.
C4_NoConstraintIsIdentity ==
    /\ (fn = "filter_urls_by_date_relevance" /\ pc = "return"
          /\ time_bounds.has_time_constraint = "False") =>
            outcome = "returned" /\ filtered_urls = urls
    /\ (fn = "filter_events_by_time_bounds" /\ pc = "return"
          /\ time_bounds.has_time_constraint = "False") =>
            outcome = "returned" /\ filtered_events = events

\* Two events, one of them without a start_date, pass unchanged
C4_Witness ==
    /\ Returned("filter_events_by_time_bounds")
    /\ time_bounds.has_time_constraint = "False"
    /\ Len(events) = 2
    /\ events[1].start_date = NoneDate
    /\ events[2].start_date = Iso(2024, 9, 1)
    /\ filtered_events = events

\* C5: with has_time_constraint true and a non-empty candidate list,
\* filter_urls_by_date_relevance never returns an empty list: when the
\* heuristic excludes every candidate it returns the first two candidates
\* of the input in their order (the single candidate when there is one).
C5_UrlFilterNeverEmpty ==
    (Returned("filter_urls_by_date_relevance")
       /\ time_bounds.has_time_constraint = "True" /\ urls # <<>>) =>
        /\ filtered_urls # <<>>
        /\ (\A i \in 1..Len(urls) : ~UrlIncluded(urls[i], time_bounds)) =>
              /\ Len(filtered_urls) = (IF Len(urls) = 1 THEN 1 ELSE 2)
              /\ \A i \in 1..Len(filtered_urls) : filtered_urls[i] = urls[i]

\* Three candidates, all excluded: the first two come back
C5_Witness ==
    /\ Returned("filter_urls_by_date_relevance")
    /\ time_bounds.has_time_constraint = "True"
    /\ Len(urls) = 3
    /\ urls[1].url = "u_out" /\ urls[2].url = "u_plain"
    /\ urls[3].url = "u_month"
    /\ filtered_urls = <<urls[1], urls[2]>>

-----------------------------------------------------------------------------
(* Properties of calculate_severity.                                       *)

\* The severity rule: high if total > 100 or locations > 3, medium if
\* total > 10 or locations > 1, else low
SeverityRule(total, locations) ==
    IF total > 100 \/ locations > 3 THEN "high"
    ELSE IF total > 10 \/ locations > 1 THEN "medium"
    ELSE "low"

\* C6: for every list of casualty numbers, the empty list included, and
\* every location count, calculate_severity returns the severity rule's
\* value for the casualty total and the location count.
C6_SeverityFollowsRule ==
    Returned("calculate_severity") =>
        severity = SeverityRule(CasualtyTotal(casualties), num_locations)

-----------------------------------------------------------------------------
(* Properties of the deterministic fallback.                               *)

FallbackRan == fn = "generate_discrete_event_packets" /\ strategy = "fallback"

\* C7: when the oracle strategy yields nothing, fallback clustering turns
\* the table with header Date, Location, Deaths and the single row
\* 2024-08-15, Kerala, 25 into exactly one event with start_date
\* 2024-08-15, primary_location Kerala, casualties.deaths 25 and severity
\* medium.
C7_TableRowBecomesEvent ==
    (FallbackRan /\ doc.paragraphs = <<>> /\ doc.tables = <<DeathsTable>>) =>
        /\ Len(events) = 1
        /\ events[1].start_date = Iso(2024, 8, 15)
        /\ events[1].primary_location = "Kerala"
        /\ events[1].casualties.deaths = IntNum(25)
        /\ events[1].severity = "medium"

\* C8: fallback clustering never emits an event for a paragraph shorter than
\* 50 characters, even when a date and a location are found in it.
C8_NoEventForShortParagraph ==
    FallbackRan =>
        \A i \in 1..Len(doc.paragraphs) :
            doc.paragraphs[i].len < 50 =>
                \A j \in 1..Len(events) :
                    events[j].event_id # "para_" \o ToString(i - 1)

\* A paragraph of 49 characters with a date and a location, followed by one
\* of 51 characters: only the second becomes an event
C8_Witness ==
    /\ FallbackRan
    /\ Len(doc.paragraphs) = 2
    /\ doc.paragraphs[1].len = 49
    /\ doc.paragraphs[1].dates # {} /\ doc.paragraphs[1].locations # {}
    /\ doc.paragraphs[2].len = 51
    /\ Len(events) = 1
    /\ events[1].event_id = "para_1"

-----------------------------------------------------------------------------
(* Properties of packet assembly.                                          *)

\* C9: create_packet_from_llm_event is total: for any event dict it returns
\* a packet without raising, and for the event with locations = [] and
\* casualties = {} the packet has affected_locations = [], deaths = injured
\* = displaced = 0 and confidence medium.
C9_PacketAssemblyTotal ==
    (fn = "create_packet_from_llm_event" /\ pc = "return") =>
        /\ outcome = "returned"
        /\ (/\ events[1].locations = LocList(<<>>)
            /\ events[1].casualties = EmptyCasualties
            /\ events[1].start_date = NoneDate
            /\ events[1].primary_location = NoneStr) =>
              /\ packets[1].affected_locations = <<>>
              /\ packets[1].deaths = IntNum(0)
              /\ packets[1].injured = IntNum(0)
              /\ packets[1].displaced = IntNum(0)
              /\ packets[1].confidence = "medium"

\* The events the packets were built from
SourceEvents ==
    IF fn = "create_packet_from_llm_event" THEN events ELSE filtered_events

\* A value is present: neither null nor empty
DatePresent(d) == d.kind \notin {"null", "empty"}
TextPresent(t) == t # NoneStr /\ t # ""

\* C10: in every assembled packet, priority is high exactly when the event's
\* severity is high and normal otherwise, and confidence is high exactly
\* when the packet's start_date and the event's primary_location are both
\* present and medium otherwise.
C10_PriorityAndConfidence ==
    (pc = "return" /\ outcome = "returned"
       /\ fn \in {"create_packet_from_llm_event",
                  "generate_discrete_event_packets"}) =>
        /\ Len(packets) = Len(SourceEvents)
        /\ \A i \in 1..Len(packets) :
             /\ packets[i].priority \in {"high", "normal"}
             /\ packets[i].priority = "high"
                  <=> SourceEvents[i].severity = "high"
             /\ packets[i].confidence \in {"high", "medium"}
             /\ packets[i].confidence = "high"
                  <=> /\ DatePresent(packets[i].start_date)
                      /\ TextPresent(SourceEvents[i].primary_location)

\* An event of high severity without a primary location: priority high,
\* confidence medium although the start date is present
C10_Witness ==
    /\ Returned("create_packet_from_llm_event")
    /\ events[1].severity = "high"
    /\ events[1].start_date = RelativeDate
    /\ events[1].primary_location = NoneStr
    /\ packets[1].start_date = Iso(2024, 8, 15)
    /\ packets[1].priority = "high"
    /\ packets[1].confidence = "medium"

-----------------------------------------------------------------------------
(* Properties of generate_discrete_event_packets.                          *)

\* The run of generate_discrete_event_packets has passed the clustering of
\* its document
Clustered ==
    /\ fn = "generate_discrete_event_packets"
    /\ pc \in {"filter", "packets", "return"}
    /\ strategy # "none"

\* C11: the deterministic fallback is invoked only after the oracle strategy
\* returned no events; when the oracle strategy returns at least one event
\* the document's events are exactly the oracle's events, and oracle events
\* and fallback events are never both present in one document's result.
C11_StrategiesNeverMerged ==
    Clustered =>
        LET oracle == cluster_related_content_with_llm(llm_response)
        IN  /\ strategy = "fallback" => oracle = <<>>
            /\ oracle # <<>> => strategy = "llm" /\ events = oracle
            /\ \A i \in 1..Len(events) :
                 events[i].source = IF strategy = "llm" THEN "llm"
                                    ELSE "fallback_paragraph"

\* The oracle returns two events for a document whose paragraph would give
\* a fallback event: the two oracle events are the document's events
C11_Witness ==
    /\ Returned("generate_discrete_event_packets")
    /\ strategy = "llm"
    /\ Len(llm_response.events) = 2
    /\ events = llm_response.events
    /\ extract_discrete_events_fallback(doc.paragraphs, doc.dates,
                                        doc.locations, doc.tables) # <<>>
    /\ Len(packets) = 2

\* Time bounds that extract_time_bounds_from_query can return
ResolverCanReturn(tb) ==
    \E c \in Clocks, r \in TimeBoundsReplies :
        extract_time_bounds_from_query(Today(c), r) = tb

\* C12: for any document, any time bounds produced by the resolver and any
\* oracle behaviour (error, timeout, reply that is not JSON, JSON without a
\* well-formed 'events' list) the oracle strategy yields zero events and
\* generate_discrete_event_packets completes with a packet list; no
\* exception reaches the caller.
C12_GenerateNeverRaises ==
    (/\ fn = "generate_discrete_event_packets"
     /\ pc = "return"
     /\ llm_response \in FailingClusterReplies
     /\ ResolverCanReturn(time_bounds)) =>
        /\ cluster_related_content_with_llm(llm_response) = <<>>
        /\ outcome = "returned"

\* C13: an event with neither a date nor a location is never materialized:
\* each packet of every result has a non-null start_date, a non-null
\* primary_location or a non-empty affected_locations, whichever strategy
\* produced the events and whether or not a time constraint is active.
C13_NoPacketWithoutDateAndLocation ==
    Returned("generate_discrete_event_packets") =>
        \A i \in 1..Len(packets) :
            \/ packets[i].start_date # NoneDate
            \/ packets[i].primary_location # NoneStr
            \/ packets[i].affected_locations # <<>>

-----------------------------------------------------------------------------
(* Properties of search_web_for_disaster_data.                             *)

\* The disaster_type of the call is neither 'all' nor a key of SEED_QUERIES
UnknownTypeGiven ==
    search_input.disaster_type
      \notin {"all", "floods", "droughts", "cyclones", "earthquakes",
               "landslides"}

UnknownTypeRejected ==
    /\ results.status = "error"
    /\ results.error = "Unknown disaster type"
    /\ results.discovered_urls = <<>>
    /\ searches = 0

\* C14 as stated: called with a disaster_type that is neither 'all' nor a
\* key of SEED_QUERIES, search_web_for_disaster_data returns status 'error'
\* with an error_message containing 'Unknown disaster type', and performs no
\* search.
C14_UnknownTypeRejected ==
    (/\ Returned("search_web_for_disaster_data")
     /\ UnknownTypeGiven) =>
        UnknownTypeRejected

\* C14 as the code has it: an unknown disaster_type is rejected with
\* 'Unknown disaster type' and without a search when use_mock is false and
\* ddgs can be imported; with use_mock true the call returns status
\* 'success' with mock URLs, and without ddgs it returns status 'error'
\* with 'ddgs not installed'; no search is performed in any of these cases.
C14_UnknownTypeRejectedOutsideMock ==
    (/\ Returned("search_web_for_disaster_data")
     /\ UnknownTypeGiven) =>
        /\ searches = 0
        /\ (~search_input.use_mock /\ search_input.ddgs_installed)
              => UnknownTypeRejected
        /\ search_input.use_mock =>
              /\ results.status = "success"
              /\ results.discovered_urls
                   = Take(MockUrls, search_input.max_results)
        /\ (~search_input.use_mock /\ ~search_input.ddgs_installed) =>
              /\ results.status = "error"
              /\ results.error = "ddgs not installed"

\* 'Floods' is no key of SEED_QUERIES (the keys are lower case): the call
\* is rejected before DDGS() is built
C14_Witness ==
    /\ Returned("search_web_for_disaster_data")
    /\ search_input.disaster_type = "Floods"
    /\ ~search_input.use_mock
    /\ search_input.ddgs_installed
    /\ ~search_input.ddgs_init
    /\ search_input.reply.hits # <<>>
    /\ results.status = "error"
    /\ results.error = "Unknown disaster type"
    /\ searches = 0

-----------------------------------------------------------------------------
(* Properties of node_validate_packets.                                    *)

\* The message has the fields packet_id, packet_type and metadata, and
\* metadata.disaster_type is non-empty
WellFormedPacket(m) ==
    /\ m.kind = "dict"
    /\ m.has_packet_id /\ m.has_packet_type /\ m.has_metadata
    /\ m.metadata = "dict"
    /\ m.disaster_type \notin {AbsentStr, NoneStr, ""}

MalformedPacket(m) == ~WellFormedPacket(m)

\* C15: node_validate_packets partitions the consumed messages: every
\* message ends up in exactly one of validated_packets and invalid_packets,
\* a message is validated if and only if it has the fields packet_id,
\* packet_type and metadata with a non-empty metadata.disaster_type, and
\* validation never raises for a malformed message.
C15_ValidationPartitions ==
    (fn = "node_validate_packets" /\ pc = "return") =>
        /\ outcome = "returned"
        /\ state.status = "packets_validated"
        /\ state.validated_packets
             = SelectSeq(state.kafka_messages, WellFormedPacket)
        /\ [i \in 1..Len(state.invalid_packets) |->
               state.invalid_packets[i].packet]
             = SelectSeq(state.kafka_messages, MalformedPacket)
        /\ Len(state.validated_packets) + Len(state.invalid_packets)
             = Len(state.kafka_messages)

\* A packet whose metadata is null, followed by a well-formed packet: the
\* first is filed as invalid by the except branch, the second is validated
C15_Witness ==
    /\ Returned("node_validate_packets")
    /\ Len(state.kafka_messages) = 2
    /\ state.kafka_messages[1].kind = "dict"
    /\ HasRequiredFields(state.kafka_messages[1])
    /\ state.kafka_messages[1].metadata = "null"
    /\ state.validated_packets = <<state.kafka_messages[2]>>
    /\ Len(state.invalid_packets) = 1
    /\ state.invalid_packets[1].reason = "Validation error"

-----------------------------------------------------------------------------
(* Further properties of the resolver, the filters and the fallback.       *)

\* C16: for every successful oracle reply, extract_time_bounds_from_query
\* returns has_time_constraint = true unless the reply explicitly reports
\* has_time_constraint = false; a reply that leaves the field out yields a
\* constrained TimeBounds.
C16_ConstrainedUnlessExplicit ==
    (/\ Returned("extract_time_bounds_from_query")
     /\ ~TimeBoundsReplyFails(llm_response)
     /\ llm_response.tb.has_time_constraint # "False") =>
        /\ time_bounds.has_time_constraint = "True"
        /\ HasTimeConstraint(time_bounds)

\* The candidate is one the URL filter is to keep: an explicit date string
\* that parses to a date inside the bounds, or no explicit date string and a
\* recency keyword in the title, the snippet or the URL
DateOrRecency(item, tb) ==
    \/ \E i \in 1..Len(item.dates) : UrlDateInBounds(item.dates[i], tb)
    \/ item.dates = <<>> /\ (item.kw_text \/ item.kw_url)

\* C17: with has_time_constraint true, filter_urls_by_date_relevance keeps
\* a candidate if and only if its title, snippet or URL contains an explicit
\* date string that parses to a date inside [start_date, end_date], or it
\* contains no explicit date string and its title, snippet or URL contains a
\* recency keyword; kept candidates appear in input order.  (Stated for the
\* calls in which some candidate is to be kept; otherwise the first two
\* candidates are returned.)
C17_KeptIffDateOrRecency ==
    (/\ Returned("filter_urls_by_date_relevance")
     /\ HasTimeConstraint(time_bounds)) =>
        LET keep == SelectSeq(urls, LAMBDA u : DateOrRecency(u, time_bounds))
        IN  keep # <<>> => filtered_urls = keep

\* The paragraph the event was made from
ParagraphEvents(i) ==
    SelectSeq(events, LAMBDA e : e.event_id = "para_" \o ToString(i - 1))

\* C18: extract_discrete_events_fallback emits an event for a paragraph if
\* and only if the paragraph has at least 50 characters and at least one
\* date or one location is found in it; the event's start_date is the first
\* date found, and its end_date is the last date found when more than one
\* date is found and null otherwise.
C18_EventIffLongEnoughWithDateOrLocation ==
    FallbackRan =>
        \A i \in 1..Len(doc.paragraphs) :
            LET para == doc.paragraphs[i]
                found == SelectSeq(doc.dates, LAMBDA d : d \in para.dates)
                places == SelectSeq(doc.locations,
                                    LAMBDA l : l \in para.locations)
                made == ParagraphEvents(i)
            IN  /\ Len(made) =
                     IF para.len >= 50 /\ (found # <<>> \/ places # <<>>)
                     THEN 1 ELSE 0
                /\ \A j \in 1..Len(made) :
                     /\ made[j].start_date =
                          IF found # <<>> THEN found[1] ELSE NoneDate
                     /\ made[j].end_date =
                          IF Len(found) > 1 THEN found[Len(found)]
                          ELSE NoneDate

\* The casualty total of an event
EventCasualtyTotal(e) ==
    e.casualties.deaths.n + e.casualties.injured.n + e.casualties.displaced.n

\* C19: the severity of every event produced by the deterministic fallback
\* equals the severity rule applied to the event's casualty total and
\* location count; a fallback event with zero casualties and at most one
\* location has severity 'low'.
C19_FallbackSeverityFollowsRule ==
    FallbackRan =>
        \A i \in 1..Len(events) :
            events[i].severity
              = SeverityRule(EventCasualtyTotal(events[i]),
                             Len(events[i].locations.items))

\* C20: every packet built from an event that the deterministic fallback
\* produced has confidence 'low' or 'medium', never 'high'.
C20_FallbackConfidenceAtMostMedium ==
    (Returned("generate_discrete_event_packets") /\ strategy = "fallback") =>
        \A i \in 1..Len(packets) : packets[i].confidence \in {"low", "medium"}

\* The event's start_date is a 'RELATIVE:' marker
IsRelative(e) == e.start_date.kind = "relative"

\* The current date lies within the bounds, both ends inclusive
TodayWithin(c, tb) ==
    /\ OrdinalOf(tb.start_date) <= ToOrdinal(c.y, c.m, c.d)
    /\ ToOrdinal(c.y, c.m, c.d) <= OrdinalOf(tb.end_date)

\* C21: with has_time_constraint true, filter_events_by_time_bounds resolves
\* an event whose start_date is a 'RELATIVE:' marker to the current date and
\* keeps it if and only if the current date lies within
\* [start_date, end_date] inclusive; in particular such an event is kept
\* when the window ends today.
C21_RelativeKeptIffTodayWithin ==
    (/\ Returned("filter_events_by_time_bounds")
     /\ HasTimeConstraint(time_bounds)) =>
        SelectSeq(filtered_events, IsRelative)
          = IF TodayWithin(clock, time_bounds)
            THEN SelectSeq(events, IsRelative)
            ELSE <<>>

\* C27: when has_time_constraint is true, every packet emitted by
\* generate_discrete_event_packets carries a start_date that lies within
\* [start_date, end_date] of the active time bounds, also for events whose
\* start date was a relative marker resolved during packet assembly.
C27_PacketStartDateWithinBounds ==
    (/\ Returned("generate_discrete_event_packets")
     /\ HasTimeConstraint(time_bounds)) =>
        \A i \in 1..Len(packets) :
            /\ ParsesYmd(packets[i].start_date)
            /\ OrdinalOf(time_bounds.start_date)
                 <= OrdinalOf(packets[i].start_date)
            /\ OrdinalOf(packets[i].start_date)
                 <= OrdinalOf(time_bounds.end_date)

-----------------------------------------------------------------------------
(* Properties of the casualty extraction, the crawler and the consumer.    *)

\* The captured numbers of the page, in their order of appearance
NumbersInOrder(full_text) == [i \in 1..Len(full_text) |-> full_text[i].number]

\* C22: the casualty list produced by extract_structured_data holds the
\* matched casualty numbers in their order of appearance in the document
\* text, so its first element is the first casualty number that occurs in
\* the text.
C22_CasualtiesInOrderOfAppearance ==
    Returned("extract_structured_data") =>
        found_casualties = Take(NumbersInOrder(page_text), MaxFoundCasualties)

\* The retried elements of crawled_data: the fallback leaves its mark in
\* 'method'
Retried(item) == item.method \in {"requests_fallback", "requests_fallback_failed"}

\* URL i's Crawl4AI attempt did not succeed: the crawler was not there, it
\* failed as a whole before it reached the URL, or the attempt failed
AttemptNotSucceeded(inp, i) ==
    \/ ~inp.installed
    \/ inp.fails_after # NeverFails /\ i > inp.fails_after
    \/ inp.attempts[i] # "success"

\* C24: in crawl_urls_with_ai with use_simple_fallback true, every input
\* URL whose Crawl4AI attempt did not succeed is retried once through the
\* plain-HTTP fallback before the result is returned (requests being
\* installed); this includes all input URLs when Crawl4AI is not installed
\* or fails as a whole before it crawls any.
C24_FailedUrlsRetriedByFallback ==
    (/\ Returned("crawl_urls_with_ai")
     /\ crawl_input.use_simple_fallback
     /\ crawl_input.requests_installed) =>
        \A i \in 1..Len(crawl_input.urls) :
            AttemptNotSucceeded(crawl_input, i) =>
                \E j \in 1..Len(crawl_results.crawled_data) :
                    /\ crawl_results.crawled_data[j].url = crawl_input.urls[i]
                    /\ Retried(crawl_results.crawled_data[j])

CountStatus(items, status) ==
    Cardinality({i \in 1..Len(items) : items[i].status = status})

\* C28: in every result of crawl_urls_with_ai, crawled_data holds at most
\* one entry per input URL, success_count equals the number of entries with
\* status 'success', and success_count + error_count equals the number of
\* entries, whatever mix of crawl successes, per-URL errors, timeouts,
\* whole-crawler failures and fallback retries occurred.
C28_CrawlCountsConsistent ==
    Returned("crawl_urls_with_ai") =>
        LET items == crawl_results.crawled_data
        IN  /\ \A i \in 1..Len(crawl_input.urls) :
                  Cardinality({j \in 1..Len(items) :
                                 items[j].url = crawl_input.urls[i]}) <= 1
            /\ \A j \in 1..Len(items) :
                  \E i \in 1..Len(crawl_input.urls) :
                      items[j].url = crawl_input.urls[i]
            /\ crawl_results.success_count = CountStatus(items, "success")
            /\ crawl_results.success_count + crawl_results.error_count
                 = Len(items)

\* A call in which Crawl4AI leaves failed entries of both kinds for the
\* fallback: one recovers over plain HTTP and one fails again
C28_Witness ==
    /\ Returned("crawl_urls_with_ai")
    /\ \E j \in 1..Len(crawl_results.crawled_data) :
          crawl_results.crawled_data[j].method = "requests_fallback"
    /\ \E j \in 1..Len(crawl_results.crawled_data) :
          crawl_results.crawled_data[j].method = "requests_fallback_failed"

\* C30: consume_kafka_messages returns at most batch_size messages on every
\* path, including the mock-data path it takes when the Kafka client is not
\* installed or the Kafka connection fails.
C30_AtMostBatchSize ==
    Returned("consume_kafka_messages") => Len(messages) <= kafka.batch_size

\* The nodes the workflow has run, in order
NodesRun == [i \in 1..Len(trace) |-> trace[i].call]

WorkflowOrder ==
    <<"consume_kafka", "validate_packets", "transform_data",
      "store_in_postgres", "update_statistics">>

C29_CountsAddUp ==
    Returned("run_disaster_consumer") =>
        /\ state.stored_count + state.failed_count
             = Len(state.validated_packets)
        /\ Len(state.validated_packets) + Len(state.invalid_packets)
             = Len(state.kafka_messages)
        /\ (db = "error" /\ state.transformed_records # <<>>) =>
              /\ state.stored_count = 0
              /\ state.failed_count = Len(state.validated_packets)

\* A final state in which one validated packet failed to transform and
\* another was stored
C29_Witness ==
    /\ Returned("run_disaster_consumer")
    /\ Len(state.transformed_records) < Len(state.validated_packets)
    /\ state.stored_count >= 1
    /\ state.failed_count >= 1

\* run_consumer is in its continuous loop and a signal has been delivered
Signalled == fn = "run_consumer" /\ ~running

\* C26: in continuous mode of run_consumer, once SIGINT or SIGTERM has been
\* delivered the batch in progress runs to completion, no further batch is
\* started (no loop test passes any more), and the loop eventually
\* terminates; while no signal has been delivered the loop does not end, a
\* batch that raises an exception leads to the poll interval's sleep, and
\* the next batch is attempted after it.
C26_GracefulShutdown ==
    /\ [][Signalled => ~running']_vars
    /\ [][Signalled /\ pc # "try" => pc' # "try"]_vars
    /\ [][fn = "run_consumer" /\ pc = "try" => pc' \in {"try", "wait"}]_vars
    /\ Signalled ~> (pc = "return")
    /\ [](fn = "run_consumer" /\ running => pc # "return")
    /\ [][fn = "run_consumer" /\ pc = "wait" /\ running
            => pc' \in {"wait", "sleep"}]_vars
    /\ [][fn = "run_consumer" /\ pc = "sleep" => pc' \in {"sleep", "while"}]_vars
    /\ (fn = "run_consumer" /\ pc = "wait" /\ last_batch = "raised")
          ~> (pc = "try" \/ ~running)

\* The loop counted a batch, went on after a batch that raised, and ended
\* after a signal
C26_Witness ==
    /\ Returned("run_consumer")
    /\ ~running
    /\ batch_count >= 1
    /\ last_batch = "raised"

-----------------------------------------------------------------------------
(* Properties of collect_and_process_disaster_data.                        *)

StageCalls ==
    <<"extract_time_bounds_from_query", "search_web_for_disaster_data",
      "filter_urls_by_date_relevance", "crawl_urls_with_ai",
      "validate_and_extract", "generate_discrete_event_packets">>

StepKeys ==
    <<"0_time_extraction", "1_search", "1.5_url_filtering", "2_crawl",
      "3_extraction", "4_kafka">>

\* The stages called so far; the event filter is called inside the last
StagesCalled ==
    SelectSeq(NodesRun, LAMBDA c : c # "filter_events_by_time_bounds")

TakesTimeBounds(c) ==
    c \in {"filter_urls_by_date_relevance", "generate_discrete_event_packets",
           "filter_events_by_time_bounds"}

\* C23: collect_and_process_disaster_data runs its stages strictly in the
\* order time-bounds resolution, search, URL filtering, crawl,
\* validate/extract, packet generation, each at most once; it returns
\* status 'failed' with empty final_packets, without running any later
\* stage, as soon as the search yields no URLs or no crawl succeeds, and
\* runs all six stages otherwise; and the time_bounds value resolved in the
\* first stage is the one given to both the URL filter and the event
\* filter.
C23_StagesInOrderWithEarlyExit ==
    fn = "collect_and_process_disaster_data" =>
        /\ StagesCalled = Take(StageCalls, Len(StagesCalled))
        /\ collected.workflow_steps
             = Take(StepKeys, Len(collected.workflow_steps))
        /\ \A i \in 1..Len(trace) :
              TakesTimeBounds(trace[i].call) =>
                  trace[i].arg = collected.time_bounds
        /\ Returned("collect_and_process_disaster_data") =>
              IF results.discovered_urls = <<>>
              THEN /\ collected.status = "failed"
                   /\ collected.final_packets = <<>>
                   /\ StagesCalled = Take(StageCalls, 2)
              ELSE IF CountStatus(crawl_results.crawled_data, "success") = 0
              THEN /\ collected.status = "failed"
                   /\ collected.final_packets = <<>>
                   /\ StagesCalled = Take(StageCalls, 4)
              ELSE /\ collected.status = "success"
                   /\ StagesCalled = StageCalls
                   /\ collected.workflow_steps = StepKeys
                   /\ collected.final_packets = packets

\* A run through all six stages that ends with a packet, the event filter
\* having been called with the bounds resolved from the query
C23_Witness ==
    /\ Returned("collect_and_process_disaster_data")
    /\ collected.status = "success"
    /\ collected.final_packets # <<>>
    /\ HasTimeConstraint(collected.time_bounds)
    /\ \E i \in 1..Len(trace) : trace[i].call = "filter_events_by_time_bounds"

=============================================================================
